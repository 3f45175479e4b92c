---------------------------- MODULE RequestProofs ----------------------------
(***************************************************************************)
(* Proofs about requests.  For any muxes, routes, middleware, paths and    *)
(* depth: what SubRouter changes is restored when its mux is left, and it  *)
(* strips what its mux was found by; writers stand as their layers do, the *)
(* Logger prints the status that was sent, and no autoOptionsProxy         *)
(* swallows what a handler says.                                           *)
(***************************************************************************)
EXTENDS Request, SequenceTheorems, WellFoundedInduction, TLAPS

AllRoutes == UNION {{Routes[m][i] : i \in DOMAIN Routes[m]} : m \in Muxes}
Methods == UNION {r.methods : r \in AllRoutes}
Matched == AllRoutes \cup {NoMatch, NotFound}
Paths == Seq(Segments)
Tails == {"exact", "*", "_"}

-----------------------------------------------------------------------------
(* The shape of the state.                                                 *)

MapTypes ==
    /\ layers \in [Muxes -> Seq(Layers)] /\ path \in Paths
    /\ envs \in [1 .. MaxDepth -> [match : Matched, methods : (SUBSET Methods) \cup {NoMethods}]]
    /\ params \in [1 .. MaxDepth -> [star : Paths \cup {NoPath}, under : Paths \cup {NoPath}]]

Olds == [i : Nat, path : Paths, match : Matched]
Calls == [path : Paths, match : Matched, rest : Paths, tail : Tails]
Frames == [mux : Muxes, i : Nat, params : Nat, env : Nat, saved : SUBSET Olds, called : Calls]

FrameTypes ==
    /\ frames \in Seq(Frames) /\ depth \in 1 .. MaxDepth
    /\ \A d \in 1 .. depth : /\ frames[d].env \in 0 .. d /\ frames[d].params \in 0 .. d
                             /\ frames[d].i \in 0 .. Len(layers[frames[d].mux])

Modes == {"down", "handler", "up", "panic", "overflow", "done", "aborted"}

Servers1 == [kind : {"server"}, interfaces : Servers, code : Nat, bytes : Nat,
             allow : SUBSET (Methods \cup {"none", "OPTIONS"}),
             sentAllow : SUBSET (Methods \cup {"none", "OPTIONS"}), flushed : BOOLEAN]
Places == Nat \X Nat
Proxies == [kind : {"fancy", "fancy18", "flush", "basic"}, code : Nat, bytes : Nat, at : Places]
Options == [kind : {"options"}, state : {"init", "headerWritten", "proxying"}, at : Places]

Writers(s) ==
    /\ s \in Seq(Servers1 \cup Proxies \cup Options) /\ Len(s) >= 1
    /\ s[1] \in Servers1 /\ \A k \in 2 .. Len(s) : s[k] \in Proxies \cup Options
WriterTypes == Writers(ws)

\* Every wrapping layer that the request is in has its writer, the deeper the later.
Wrapped ==
    /\ \A k \in 2 .. Len(ws) : ws[k].at \in Wrapping
    /\ \A at \in Wrapping : \E k \in 2 .. Len(ws) : ws[k].at = at
    /\ \A k \in 2 .. Len(ws) : IsProxy(ws[k]) <=> LayerAt(ws[k].at) = "Logger"
    /\ \A j, k \in 2 .. Len(ws) : j < k => Deeper(ws[j].at, ws[k].at)

\* Maps once made are everybody's further in; what is not made yet is empty.
Shared ==
    /\ \A d \in 1 .. depth : frames[d].env # 0 => frames[frames[d].env].env = frames[d].env
    /\ \A d \in 1 .. depth : frames[d].params # 0 => frames[frames[d].params].params = frames[d].params
    /\ \A d, e \in 1 .. depth : d <= e /\ frames[d].env # 0 => frames[e].env = frames[d].env
    /\ \A d, e \in 1 .. depth : d <= e /\ frames[d].params # 0 => frames[e].params = frames[d].params
    /\ \A d \in 1 .. depth : frames[d].env # d => envs[d] = EmptyEnv
    /\ \A d \in 1 .. depth : frames[d].params # d => params[d] = EmptyParams

-----------------------------------------------------------------------------
(* What SubRouter keeps.                                                   *)

Entered(d, l) == \E j \in 1 .. frames[d].i : layers[frames[d].mux][j] = l
First(d, old) == \A other \in frames[d].saved : old.i <= other.i
PathAt(d) == IF d = depth THEN path ELSE frames[d + 1].called.path
MatchAt(d) == IF d = depth THEN MatchOf(top) ELSE frames[d + 1].called.match

Saves ==
    \A d \in 1 .. depth :
        /\ \A old \in frames[d].saved :
              old.i \in 1 .. frames[d].i /\ layers[frames[d].mux][old.i] = "SubRouter"
        /\ \A a, b \in frames[d].saved : a.i = b.i => a = b

\* The path of the call, until a SubRouter has changed it.
PathKept ==
    \A d \in 1 .. depth :
        /\ frames[d].saved = {} => PathAt(d) = frames[d].called.path
        /\ \A old \in frames[d].saved : First(d, old) => old.path = frames[d].called.path

Mounted == \A d \in 2 .. depth : \E r \in Mounts : frames[d].mux = r.handler /\ frames[d].called.tail = r.tail
NoneCalled == \A d \in 2 .. depth : frames[d - 1].env = 0 => frames[d].called.match = NoMatch

HasSuffix(ps, f) == f.params # 0 /\ (ps[f.params].star # NoPath \/ ps[f.params].under # NoPath)
SuffixFound ==
    Suffixed =>
        /\ \A d \in 2 .. depth : HasSuffix(params, frames[d])
        /\ mode = "down" /\ MatchOf(top) \in Mounts => HasSuffix(params, top)
        /\ \A d \in 2 .. depth : \A j \in 1 .. frames[d].i :
              layers[frames[d].mux][j] = "SubRouter" => \E old \in frames[d].saved : old.i = j

MatchKept ==
    Shielded =>
        \A d \in 2 .. depth :
            /\ frames[d].saved = {} => MatchAt(d) = frames[d].called.match
            /\ \A old \in frames[d].saved : First(d, old) => old.match = frames[d].called.match

-----------------------------------------------------------------------------
(* On the way down.                                                        *)

\* Nothing has been written.
Silent ==
    mode = "down" =>
        /\ ws[1].code = 0 /\ ~ws[1].flushed
        /\ \A k \in 2 .. Len(ws) : IF IsProxy(ws[k]) THEN ws[k].code = 0 ELSE ws[k].state = "init"

\* The explicit match is what routing here and now would find.
RoutedHere ==
    mode = "down" /\ StripsFirst /\ Entered(depth, "Router") => MatchOf(top) = Chosen(top.mux)

\* Methods are only told when nothing was found, and nothing will be.
MethodsOf(f) == IF f.env = 0 THEN NoMethods ELSE envs[f.env].methods
Telling ==
    StripsFirst =>
        /\ mode = "down" /\ MethodsOf(top) # NoMethods =>
              Entered(depth, "Router") /\ Takes(top.mux) = {}
        /\ mode \notin {"down", "overflow"} /\ serving # "notFound" =>
              \A d \in 1 .. depth : MethodsOf(frames[d]) = NoMethods
        /\ mode = "panic" => serving # "notFound"

\* What a match that leads to a mux leaves of the path is in the maps.
MatchBound ==
    MatchOf(top) \in Mounts =>
        /\ top.params # 0
        /\ MatchOf(top).tail = "*" => params[top.params].star = Rest(MatchOf(top))
        /\ MatchOf(top).tail = "_" => params[top.params].under = Rest(MatchOf(top))

\* A star in the maps is that of a call, or of the match.
Stars == \E d \in 1 .. depth : frames[d].called.tail = "*"
StarKnown ==
    top.params # 0 /\ params[top.params].star # NoPath =>
        Stars \/ (Entered(depth, "Router") /\ MatchOf(top).tail = "*")

\* The suffix is that of the call, until the mux routes.
SuffixRight ==
    ~MixedMounts /\ depth > 1 =>
        /\ ~Entered(depth, "Router") => Suffix(top) = top.called.rest
        /\ top.saved # {} => path = top.called.rest

\* The mux that net/http calls is left no suffix.
OuterBare ==
    depth = 1 =>
        /\ top.called.tail = "exact" /\ top.saved = {}
        /\ ~Entered(depth, "Router") => Suffix(top) = NoPath

Tied ==
    mode = "down" /\ StripsFirst /\ Suffixed =>
        MatchBound /\ StarKnown /\ SuffixRight /\ OuterBare

IInv ==
    /\ MapTypes /\ FrameTypes /\ mode \in Modes /\ WriterTypes /\ Wrapped /\ Shared
    /\ Saves /\ PathKept /\ Mounted /\ NoneCalled /\ SuffixFound /\ MatchKept
    /\ Silent /\ StatusTrue /\ RoutedHere /\ Telling /\ HandlersHeard /\ Tied

-----------------------------------------------------------------------------
(* Routes and sequences.                                                   *)

\* The routes of a mux have the parts that a route has.
LEMMA RouteFacts ==
    \A r \in AllRoutes : /\ r.prefix \in Paths /\ r.tail \in Tails
                         /\ "none" \notin r.methods /\ r.methods \subseteq Methods
                         /\ r.handler \in Muxes \cup Handlers
<1> SUFFICES ASSUME NEW r \in AllRoutes
             PROVE  /\ r.prefix \in Paths /\ r.tail \in Tails
                    /\ "none" \notin r.methods /\ r.methods \subseteq Methods
                    /\ r.handler \in Muxes \cup Handlers
  OBVIOUS
<1>1. PICK m \in Muxes : \E i \in DOMAIN Routes[m] : r = Routes[m][i]
  BY DEF AllRoutes
<1>2. IsRoute(r)
  BY <1>1, RequestAssumption
<1>3. r.methods \subseteq Methods
  BY DEF Methods
<1> QED BY <1>2, <1>3 DEF IsRoute, Paths, Tails

\* What is no route has no mux for a handler.
LEMMA NoRoutes ==
    /\ NoMatch.handler = "nil" /\ NoMatch.tail = "exact" /\ NoMatch.prefix = <<>> /\ NoMatch.methods = {}
    /\ NotFound.handler = "notFound" /\ NotFound.tail = "exact" /\ NotFound.prefix = <<>>
    /\ NotFound.methods = {}
    /\ "nil" \notin Muxes \cup Handlers /\ "notFound" \notin Muxes \cup Handlers
    /\ "recovered" \notin Muxes \cup Handlers
    /\ NoMatch # NotFound /\ NoMatch \notin AllRoutes /\ NotFound \notin AllRoutes
<1>1. /\ NoMatch.handler = "nil" /\ NoMatch.tail = "exact" /\ NoMatch.prefix = <<>> /\ NoMatch.methods = {}
      /\ NotFound.handler = "notFound" /\ NotFound.tail = "exact" /\ NotFound.prefix = <<>>
      /\ NotFound.methods = {}
  BY DEF NoMatch, NotFound, Unrouted
<1>2. /\ "nil" \notin Muxes \cup Handlers /\ "notFound" \notin Muxes \cup Handlers
      /\ "recovered" \notin Muxes \cup Handlers
  BY RequestAssumption
<1> QED BY <1>1, <1>2, RouteFacts

\* A mount is a route, with a mux for a handler; and so is a match with one.
LEMMA MountFacts ==
    /\ \A r \in Mounts : r \in AllRoutes /\ r.handler \in Muxes
    /\ \A r \in Matched : r.handler \in Muxes => r \in Mounts
    /\ NoMatch \notin Mounts /\ NotFound \notin Mounts
<1>1. ASSUME NEW r \in Mounts PROVE r \in AllRoutes /\ r.handler \in Muxes
  BY <1>1 DEF Mounts, AllRoutes
<1>2. ASSUME NEW r \in Matched, r.handler \in Muxes PROVE r \in Mounts
  <2>1. r \in AllRoutes
    BY <1>2, NoRoutes DEF Matched
  <2>2. PICK m \in Muxes : \E i \in DOMAIN Routes[m] : r = Routes[m][i]
    BY <2>1 DEF AllRoutes
  <2> QED BY <1>2, <2>2 DEF Mounts
<1>3. NoMatch \notin Mounts /\ NotFound \notin Mounts
  BY <1>1, NoRoutes
<1> QED BY <1>1, <1>2, <1>3

\* A nonempty set of numbers has a least one, and if it is bounded a greatest.
LEMMA LeastExists ==
    ASSUME NEW S, S \subseteq Nat, S # {}
    PROVE  Min(S) \in S /\ \A x \in S : Min(S) <= x
<1>1. PICK x \in S : \A y \in S : ~(<<y, x>> \in OpToRel(<, Nat))
  BY WFMin, NatLessThanWellFounded
<1>2. \A y \in S : x \in Nat /\ y \in Nat /\ ~(y < x)
  BY <1>1 DEF OpToRel
<1>3. \A y \in S : x <= y
  BY <1>2
<1> QED BY <1>3 DEF Min

LEMMA GreatestExists ==
    ASSUME NEW n \in Nat, NEW S, S \subseteq 1 .. n, S # {}
    PROVE  Max(S) \in S /\ \A x \in S : x <= Max(S)
<1> DEFINE T == {k \in 0 .. n : n - k \in S}
<1>1. PICK s \in S : s \in 1 .. n
  OBVIOUS
<1>2. n - s \in T
  <2>1. n - s \in 0 .. n /\ n - (n - s) = s
    BY <1>1
  <2> QED BY <2>1
<1>3. T \subseteq Nat /\ T # {}
  <2>1. 0 .. n \subseteq Nat
    OBVIOUS
  <2> QED BY <1>2, <2>1
<1>4. PICK k \in T : \A l \in T : k <= l
  <2> HIDE DEF T
  <2>1. Min(T) \in T /\ \A x \in T : Min(T) <= x
    BY <1>3, LeastExists
  <2> QED BY <2>1
<1>5. n - k \in S /\ k \in 0 .. n
  BY <1>4
<1>6. \A x \in S : x <= n - k
  <2> SUFFICES ASSUME NEW x \in S PROVE x <= n - k
    OBVIOUS
  <2>1. x \in 1 .. n /\ n - x \in 0 .. n /\ n - (n - x) = x
    OBVIOUS
  <2>2. n - x \in T
    BY <2>1
  <2>3. k <= n - x
    BY <1>4, <2>2
  <2> HIDE DEF T
  <2> QED BY <1>5, <2>1, <2>3
<1> HIDE DEF T
<1> QED BY <1>5, <1>6 DEF Max

\* What a pattern leaves of a path is a path, and never nothing.
LEMMA RestIsPath ==
    ASSUME path \in Paths, NEW r, r.prefix \in Paths
    PROVE  Rest(r) \in Paths
<1>1. Len(r.prefix) \in Nat /\ Len(path) \in Nat
  BY LenProperties DEF Paths
<1> QED BY <1>1, SubSeqProperties DEF Rest, Paths

LEMMA NoPathIsNone == NoPath \notin Paths
<1> SUFFICES ASSUME NoPath \in Paths PROVE FALSE
  OBVIOUS
<1>1. Len(NoPath) = 1 /\ NoPath[1] = "none"
  BY DEF NoPath
<1>2. NoPath[1] \in Segments
  BY <1>1, ElementOfSeq DEF Paths
<1> QED BY <1>1, <1>2, RequestAssumption

-----------------------------------------------------------------------------
(* What routing finds.                                                     *)

EnvTypes == [match : Matched, methods : (SUBSET Methods) \cup {NoMethods}]
ParamTypes == [star : Paths \cup {NoPath}, under : Paths \cup {NoPath}]

\* The route taken is the first that matches and has the method.
LEMMA ChosenFacts ==
    ASSUME NEW m \in Muxes
    PROVE  /\ Takes(m) = {} => Chosen(m) = NotFound
           /\ Takes(m) # {} => /\ TakenAt(m) \in Takes(m) /\ Chosen(m) = Routes[m][TakenAt(m)]
                               /\ Chosen(m) \in AllRoutes
           /\ Chosen(m) \in Matched /\ Chosen(m) # NoMatch /\ Chosen(m).prefix \in Paths
           /\ Chosen(m).tail \in Tails
           /\ Allowed(m) \subseteq Methods /\ Allowed(m) # NoMethods
<1>1. Takes(m) = {} => Chosen(m) = NotFound
  BY DEF Chosen
<1>2. Takes(m) \subseteq DOMAIN Routes[m] /\ Asked(m) \subseteq DOMAIN Routes[m]
  BY DEF Takes, Hits, Asked
<1>3. ASSUME Takes(m) # {}
      PROVE  /\ TakenAt(m) \in Takes(m) /\ Chosen(m) = Routes[m][TakenAt(m)]
             /\ Chosen(m) \in AllRoutes
  <2>1. Takes(m) \subseteq Nat
    BY <1>2, RequestAssumption
  <2>2. Min(Takes(m)) \in Takes(m)
    BY <1>3, <2>1, LeastExists
  <2>3. TakenAt(m) \in Takes(m) /\ Chosen(m) = Routes[m][TakenAt(m)]
    BY <1>3, <2>2 DEF TakenAt, Chosen
  <2> QED BY <1>2, <2>3 DEF AllRoutes
<1>4. \A i \in DOMAIN Routes[m] : Routes[m][i] \in AllRoutes
  BY DEF AllRoutes
<1>5. Allowed(m) \subseteq Methods /\ "none" \notin Allowed(m)
  BY <1>2, <1>4, RouteFacts DEF Allowed
<1>6. Chosen(m) \in Matched /\ Chosen(m) # NoMatch
  BY <1>1, <1>3, NoRoutes DEF Matched
<1>7. <<>> \in Paths
  BY EmptySeq DEF Paths
<1>8. Chosen(m).prefix \in Paths /\ Chosen(m).tail \in Tails
  BY <1>1, <1>3, <1>7, NoRoutes, RouteFacts DEF Tails
<1> QED BY <1>1, <1>3, <1>5, <1>6, <1>8 DEF NoMethods

\* What is bound is what the route taken leaves of the path.
LEMMA BindsFacts ==
    ASSUME NEW m \in Muxes, path \in Paths
    PROVE  /\ Binds(m) \in ParamTypes
           /\ Binds(m).star = IF Chosen(m).tail = "*" THEN Rest(Chosen(m)) ELSE NoPath
           /\ Chosen(m).tail = "_" => Binds(m).under = Rest(Chosen(m))
           /\ Rest(Chosen(m)) \in Paths
<1> DEFINE unders == {i \in Asked(m) : Routes[m][i].tail = "_"}
<1>1. Binds(m) = [star  |-> IF Chosen(m).tail = "*" THEN Rest(Chosen(m)) ELSE NoPath,
                  under |-> IF unders = {} THEN NoPath ELSE Rest(Routes[m][Max(unders)])]
  BY DEF Binds
<1>2. Rest(Chosen(m)) \in Paths
  BY ChosenFacts, RestIsPath
<1>3. unders \subseteq 1 .. Len(Routes[m]) /\ Len(Routes[m]) \in Nat
  BY RequestAssumption DEF Asked, Hits
<1>4. unders # {} => Max(unders) \in unders /\ \A x \in unders : x <= Max(unders)
  BY <1>3, GreatestExists
<1>5. unders # {} => Rest(Routes[m][Max(unders)]) \in Paths
  <2> HAVE unders # {}
  <2>1. Max(unders) \in DOMAIN Routes[m]
    BY <1>3, <1>4, RequestAssumption
  <2>2. Routes[m][Max(unders)] \in AllRoutes
    <3> HIDE DEF unders
    <3> QED BY <2>1 DEF AllRoutes
  <2>3. Routes[m][Max(unders)].prefix \in Paths
    BY <2>2, RouteFacts
  <2> QED BY <2>3, RestIsPath
<1>6. ASSUME Chosen(m).tail = "_"
      PROVE  unders # {} /\ Routes[m][Max(unders)] = Chosen(m)
  <2>1. Takes(m) # {}
    BY <1>6, ChosenFacts, NoRoutes
  <2>2. TakenAt(m) \in Takes(m) /\ Chosen(m) = Routes[m][TakenAt(m)]
    BY <2>1, ChosenFacts
  <2>3. TakenAt(m) \in Hits(m) /\ TakenAt(m) \in 1 .. Len(Routes[m])
    BY <2>2, RequestAssumption DEF Takes, Hits
  <2>4. TakenAt(m) \in unders
    <3>1. TakenAt(m) \in Asked(m)
      BY <2>3, RequestAssumption DEF Asked
    <3> QED BY <1>6, <2>2, <3>1
  <2>5. \A x \in unders : x <= TakenAt(m)
    BY <2>1 DEF Asked
  <2>6. Max(unders) = TakenAt(m)
    <3> HIDE DEF unders
    <3>1. Max(unders) \in 1 .. Len(Routes[m]) /\ TakenAt(m) <= Max(unders)
          /\ Max(unders) <= TakenAt(m)
      BY <1>3, <1>4, <2>4, <2>5
    <3> QED BY <1>3, <2>3, <3>1
  <2> QED BY <2>2, <2>4, <2>6
<1> HIDE DEF unders
<1> DEFINE star == IF Chosen(m).tail = "*" THEN Rest(Chosen(m)) ELSE NoPath
           under == IF unders = {} THEN NoPath ELSE Rest(Routes[m][Max(unders)])
<1>7. star \in Paths \cup {NoPath} /\ under \in Paths \cup {NoPath}
  BY <1>2, <1>5
<1>8. Chosen(m).tail = "_" => under = Rest(Chosen(m))
  BY <1>6
<1>9. Binds(m) = [star |-> star, under |-> under]
  BY <1>1
<1> HIDE DEF star, under
<1>10. Binds(m) \in ParamTypes /\ Binds(m).star = star /\ Binds(m).under = under
  BY <1>7, <1>9 DEF ParamTypes
<1> QED BY <1>2, <1>8, <1>10 DEF star

\* The frame on top, with i, and perhaps with maps that it did not have.
Grown(f) ==
    /\ f \in Frames /\ f.mux = top.mux /\ f.called = top.called
    /\ f.env = top.env \/ (top.env = 0 /\ f.env = depth)
    /\ f.params = top.params \/ (top.params = 0 /\ f.params = depth)

\* The frame on top is a frame; a mux that has no map has the empty one.
LEMMA TopFacts ==
    ASSUME MapTypes, FrameTypes, Shared
    PROVE  /\ depth \in 1 .. MaxDepth /\ depth \in Nat /\ MaxDepth \in Nat /\ top \in Frames
           /\ top.mux \in Muxes /\ top.env \in 0 .. depth /\ top.params \in 0 .. depth
           /\ top.i \in 0 .. Len(layers[top.mux]) /\ top.saved \subseteq Olds /\ top.called \in Calls
           /\ top.env = 0 => envs[depth] = EmptyEnv
           /\ top.params = 0 => params[depth] = EmptyParams
<1>1. MaxDepth \in Nat /\ depth \in 1 .. MaxDepth
  BY RequestAssumption DEF FrameTypes
<1>2. top \in Frames
  BY <1>1, ElementOfSeq DEF FrameTypes, top, depth
<1>3. top.mux \in Muxes /\ top.saved \subseteq Olds /\ top.called \in Calls
  BY <1>2 DEF Frames
<1>4. top = frames[depth] /\ depth \in 1 .. depth /\ depth # 0
  BY <1>1 DEF top
<1>5. /\ top.env \in 0 .. depth /\ top.params \in 0 .. depth
      /\ top.i \in 0 .. Len(layers[top.mux])
  BY <1>4 DEF FrameTypes
<1>6. /\ top.env = 0 => envs[depth] = EmptyEnv
      /\ top.params = 0 => params[depth] = EmptyParams
  BY <1>4 DEF Shared
<1> QED BY <1>1, <1>2, <1>3, <1>4, <1>5, <1>6

\* To have an Env is to be the same mux otherwise.
LEMMA WithEnvFacts ==
    ASSUME depth \in Nat, NEW f \in Frames
    PROVE  /\ WithEnv(f) \in Frames /\ WithEnv(f).mux = f.mux /\ WithEnv(f).i = f.i
           /\ WithEnv(f).called = f.called /\ WithEnv(f).saved = f.saved
           /\ WithEnv(f).params = f.params
           /\ WithEnv(f).env = IF f.env = 0 THEN depth ELSE f.env
BY DEF WithEnv, Frames

\* Routing binds in the URLParams and tells in the Env of the mux on top, and
\* changes nothing else.
LEMMA GetMatchFacts ==
    ASSUME MapTypes, FrameTypes, Shared
    PROVE  /\ Grown(Routed) /\ Routed.i = top.i /\ Routed.saved = top.saved
           /\ BoundParams \in [1 .. MaxDepth -> ParamTypes]
           /\ \A d \in 1 .. MaxDepth : d # Routed.params => BoundParams[d] = params[d]
           /\ Routed.params = 0 => Binds(top.mux) = EmptyParams
           /\ Routed.params # 0 =>
                 BoundParams[Routed.params] = Rebind(params[Routed.params], Binds(top.mux))
           /\ ToldEnvs \in [1 .. MaxDepth -> EnvTypes]
           /\ \A d \in 1 .. MaxDepth : ToldEnvs[d].match = envs[d].match
           /\ \A d \in 1 .. MaxDepth : d # Routed.env => ToldEnvs[d] = envs[d]
           /\ ~Tells(top.mux) => ToldEnvs = envs /\ Routed.env = top.env
<1> DEFINE m == top.mux
           b == Binds(top.mux)
           f == IF b # EmptyParams /\ top.params = 0 THEN [top EXCEPT !.params = depth] ELSE top
<1>1. /\ depth \in 1 .. MaxDepth /\ MaxDepth \in Nat /\ top \in Frames /\ m \in Muxes
      /\ depth \in Nat /\ depth # 0
      /\ top.env \in 0 .. depth /\ top.params \in 0 .. depth
  BY TopFacts
<1>2. path \in Paths
  BY DEF MapTypes
<1>3. Routed = IF Tells(m) THEN WithEnv(f) ELSE f
  BY DEF Routed
<1>4. /\ f \in Frames /\ f.mux = top.mux /\ f.called = top.called /\ f.i = top.i
      /\ f.saved = top.saved /\ f.env = top.env
      /\ f.params = IF b # EmptyParams /\ top.params = 0 THEN depth ELSE top.params
  BY <1>1 DEF Frames
<1> HIDE DEF f
<1>5. /\ Routed \in Frames /\ Routed.mux = top.mux /\ Routed.called = top.called
      /\ Routed.i = top.i /\ Routed.saved = top.saved
      /\ Routed.params = IF b # EmptyParams /\ top.params = 0 THEN depth ELSE top.params
      /\ Routed.env = IF Tells(m) /\ top.env = 0 THEN depth ELSE top.env
  BY <1>1, <1>3, <1>4, WithEnvFacts
<1>6. Grown(Routed) /\ Routed.i = top.i /\ Routed.saved = top.saved
  BY <1>5 DEF Grown
<1>7. b \in ParamTypes
  BY <1>1, <1>2, BindsFacts
<1>8. params \in [1 .. MaxDepth -> ParamTypes] /\ envs \in [1 .. MaxDepth -> EnvTypes]
  BY DEF MapTypes, ParamTypes, EnvTypes
<1>9. /\ Routed.params = 0 => b = EmptyParams
      /\ b # EmptyParams => Routed.params \in 1 .. MaxDepth
      /\ Routed.params \in 0 .. MaxDepth
  BY <1>1, <1>5
<1>10. \A p \in ParamTypes : Rebind(p, b) \in ParamTypes
  BY <1>7 DEF Rebind, Rebound, ParamTypes
<1>11. \A p \in ParamTypes : Rebind(p, EmptyParams) = p
  BY DEF Rebind, Rebound, EmptyParams, ParamTypes
<1>12. BoundParams = IF b = EmptyParams THEN params
                     ELSE [params EXCEPT ![Routed.params] = Rebind(params[Routed.params], b)]
  BY DEF BoundParams
<1>13. /\ BoundParams \in [1 .. MaxDepth -> ParamTypes]
       /\ \A d \in 1 .. MaxDepth : d # Routed.params => BoundParams[d] = params[d]
       /\ Routed.params # 0 => BoundParams[Routed.params] = Rebind(params[Routed.params], b)
  <2>1. CASE b = EmptyParams
    <3>1. BoundParams = params
      BY <1>12, <2>1
    <3> QED BY <1>8, <1>9, <1>11, <2>1, <3>1
  <2>2. CASE b # EmptyParams
    <3> HIDE DEF b
    <3>1. BoundParams = [params EXCEPT ![Routed.params] = Rebind(params[Routed.params], b)]
      BY <1>12, <2>2
    <3>2. Rebind(params[Routed.params], b) \in ParamTypes /\ Routed.params \in 1 .. MaxDepth
      BY <1>8, <1>9, <1>10, <2>2
    <3> QED BY <1>8, <3>1, <3>2
  <2> QED BY <2>1, <2>2
<1>14. Allowed(m) \in SUBSET Methods
  BY <1>1, ChosenFacts
<1>15. /\ ToldEnvs \in [1 .. MaxDepth -> EnvTypes]
       /\ \A d \in 1 .. MaxDepth : ToldEnvs[d].match = envs[d].match
       /\ \A d \in 1 .. MaxDepth : d # Routed.env => ToldEnvs[d] = envs[d]
  <2>1. CASE ~Tells(m)
    <3>1. ToldEnvs = envs
      BY <2>1 DEF ToldEnvs
    <3> QED BY <1>8, <3>1
  <2>2. CASE Tells(m)
    <3>1. Routed.env \in 1 .. MaxDepth
      BY <1>1, <1>5, <2>2
    <3>2. ToldEnvs = [envs EXCEPT ![Routed.env] = [envs[Routed.env] EXCEPT !.methods = Allowed(m)]]
      BY <2>2 DEF ToldEnvs, Tell
    <3>3. envs[Routed.env] \in EnvTypes
      BY <1>8, <3>1
    <3>4. /\ [envs[Routed.env] EXCEPT !.methods = Allowed(m)] \in EnvTypes
          /\ [envs[Routed.env] EXCEPT !.methods = Allowed(m)].match = envs[Routed.env].match
      BY <1>14, <3>3 DEF EnvTypes
    <3> QED BY <1>8, <3>1, <3>2, <3>4
  <2> QED BY <2>1, <2>2
<1>16. ~Tells(m) => ToldEnvs = envs /\ Routed.env = top.env
  BY <1>5 DEF ToldEnvs
<1> QED BY <1>6, <1>9, <1>13, <1>15, <1>16

-----------------------------------------------------------------------------
(* Steps that change the frame on top, and the maps that it has.           *)

TopStep(f) ==
    /\ Grown(f) /\ f.i \in 0 .. Len(layers[top.mux]) /\ Top(f)
    /\ UNCHANGED config /\ path' \in Paths
    /\ envs' \in [1 .. MaxDepth -> EnvTypes] /\ params' \in [1 .. MaxDepth -> ParamTypes]
    /\ \A d \in 1 .. MaxDepth : d # f.env => envs'[d] = envs[d]
    /\ \A d \in 1 .. MaxDepth : d # f.params => params'[d] = params[d]

\* The frame is on top then, and the others are as they were.
LEMMA TopStepFrames ==
    ASSUME MapTypes, FrameTypes, Shared, NEW f, TopStep(f)
    PROVE  /\ frames' \in Seq(Frames) /\ depth' = depth /\ top' = f /\ frames'[depth] = f
           /\ \A d \in 1 .. depth - 1 : frames'[d] = frames[d]
           /\ \A d \in 1 .. depth : /\ frames'[d].mux = frames[d].mux
                                    /\ frames'[d].called = frames[d].called
                                    /\ frames[d].env # 0 => frames'[d].env = frames[d].env
                                    /\ frames[d].params # 0 => frames'[d].params = frames[d].params
           /\ layers' = layers /\ method' = method
<1>1. depth \in Nat /\ depth \in 1 .. depth /\ frames \in Seq(Frames) /\ f \in Frames
  BY TopFacts DEF FrameTypes, TopStep, Grown
<1>2. frames' = [frames EXCEPT ![depth] = f]
  BY DEF TopStep, Top
<1>3. Len(frames) = depth
  BY DEF depth
<1>4. /\ frames' \in Seq(Frames) /\ Len(frames') = depth
      /\ \A d \in 1 .. depth : frames'[d] = IF d = depth THEN f ELSE frames[d]
  <2> HIDE DEF depth
  <2> QED BY <1>1, <1>2, <1>3, ExceptSeq
<1>5. depth' = depth
  BY <1>4 DEF depth
<1>6. top' = f /\ frames'[depth] = f
  BY <1>1, <1>4, <1>5 DEF top
<1>7. \A d \in 1 .. depth - 1 : frames'[d] = frames[d]
  BY <1>1, <1>4
<1>8. layers' = layers /\ method' = method
  BY DEF TopStep, config
<1>9. \A d \in 1 .. depth : /\ frames'[d].mux = frames[d].mux
                            /\ frames'[d].called = frames[d].called
                            /\ frames[d].env # 0 => frames'[d].env = frames[d].env
                            /\ frames[d].params # 0 => frames'[d].params = frames[d].params
  BY <1>4 DEF TopStep, Grown, top
<1> QED BY <1>4, <1>5, <1>6, <1>7, <1>8, <1>9

\* The shape of the state is kept.
Shape == MapTypes /\ FrameTypes /\ Shared

LEMMA TopStepShape ==
    ASSUME Shape, NEW f, TopStep(f)
    PROVE  Shape'
<1> USE DEF Shape
<1>1. /\ frames' \in Seq(Frames) /\ depth' = depth /\ frames'[depth] = f
      /\ \A d \in 1 .. depth - 1 : frames'[d] = frames[d]
      /\ layers' = layers
  BY TopStepFrames
<1>2. depth \in 1 .. MaxDepth /\ MaxDepth \in Nat /\ depth \in Nat
  BY TopFacts
<1>3. /\ f.mux = top.mux /\ f.i \in 0 .. Len(layers[top.mux])
      /\ f.env = top.env \/ (top.env = 0 /\ f.env = depth)
      /\ f.params = top.params \/ (top.params = 0 /\ f.params = depth)
      /\ f.env \in 0 .. depth /\ f.params \in 0 .. depth
  BY <1>2, TopFacts DEF TopStep, Grown
<1>4. MapTypes'
  BY <1>1 DEF TopStep, MapTypes, EnvTypes, ParamTypes
<1>5. FrameTypes'
  <2>1. ASSUME NEW d \in 1 .. depth
        PROVE  /\ frames'[d].env \in 0 .. d /\ frames'[d].params \in 0 .. d
               /\ frames'[d].i \in 0 .. Len(layers[frames'[d].mux])
    <3>1. CASE d = depth
      BY <1>1, <1>3, <3>1
    <3>2. CASE d # depth
      <4>1. d \in 1 .. depth - 1
        BY <1>2, <3>2
      <4> QED BY <1>1, <4>1 DEF FrameTypes
    <3> QED BY <3>1, <3>2
  <2> QED BY <1>1, <1>2, <2>1 DEF FrameTypes
<1>6. Shared'
  <2>1. \A d \in 1 .. depth : /\ frames'[d].env = (IF d = depth THEN f.env ELSE frames[d].env)
                              /\ frames'[d].params = (IF d = depth THEN f.params ELSE frames[d].params)
    BY <1>1, <1>2
  <2>2. \A d \in 1 .. depth : frames[d].env # 0 => f.env = frames[d].env /\ frames[d].env \in 1 .. d
    BY <1>2, <1>3 DEF Shared, FrameTypes, top
  <2>3. \A d \in 1 .. depth : frames[d].params # 0 => f.params = frames[d].params /\ frames[d].params \in 1 .. d
    BY <1>2, <1>3 DEF Shared, FrameTypes, top
  <2>8. \A d \in 1 .. depth : frames'[d].env # 0 => frames'[frames'[d].env].env = frames'[d].env
    <3>1. f.env # 0 => frames'[f.env].env = f.env
      BY <1>2, <1>3, <2>1, <2>2 DEF Shared, top
    <3> QED BY <1>2, <2>1, <2>2, <3>1 DEF Shared
  <2>9. \A d \in 1 .. depth : frames'[d].params # 0 => frames'[frames'[d].params].params = frames'[d].params
    <3>1. f.params # 0 => frames'[f.params].params = f.params
      BY <1>2, <1>3, <2>1, <2>3 DEF Shared, top
    <3> QED BY <1>2, <2>1, <2>3, <3>1 DEF Shared
  <2>4. \A d, e \in 1 .. depth : d <= e /\ frames'[d].env # 0 => frames'[e].env = frames'[d].env
    BY <1>2, <2>1, <2>2 DEF Shared
  <2>5. \A d, e \in 1 .. depth : d <= e /\ frames'[d].params # 0 => frames'[e].params = frames'[d].params
    BY <1>2, <2>1, <2>3 DEF Shared
  <2>6. ASSUME NEW d \in 1 .. depth, frames'[d].env # d PROVE envs'[d] = EmptyEnv
    <3>1. d # f.env
      BY <1>2, <1>3, <2>1, <2>6, <2>8
    <3>2. frames[d].env # d
      BY <1>3, <2>1, <2>6 DEF top
    <3> QED BY <1>2, <3>1, <3>2 DEF TopStep, Shared
  <2>7. ASSUME NEW d \in 1 .. depth, frames'[d].params # d PROVE params'[d] = EmptyParams
    <3>1. d # f.params
      BY <1>2, <1>3, <2>1, <2>7, <2>9
    <3>2. frames[d].params # d
      BY <1>3, <2>1, <2>7 DEF top
    <3> QED BY <1>2, <3>1, <3>2 DEF TopStep, Shared
  <2> QED BY <1>1, <2>4, <2>5, <2>6, <2>7, <2>8, <2>9 DEF Shared
<1> QED BY <1>4, <1>5, <1>6

-----------------------------------------------------------------------------
(* What the actions do to the frame on top.                                *)

\* A layer other than SubRouter is entered or left, or routing done.
Plain(f) == TopStep(f) /\ f.saved = top.saved /\ path' = path

\* The top frame, as it is or with a map more, is a step to wherever it may go.
LEMMA StepTo ==
    ASSUME Shape, NEW f, Grown(f), NEW i \in 0 .. Len(layers[top.mux])
    PROVE  /\ Grown([f EXCEPT !.i = i]) /\ [f EXCEPT !.i = i].i = i
           /\ [f EXCEPT !.i = i].saved = f.saved /\ [f EXCEPT !.i = i].env = f.env
           /\ [f EXCEPT !.i = i].params = f.params
<1>1. i \in Nat
  <2>1. Len(layers[top.mux]) \in Nat
    BY TopFacts, LenProperties DEF Shape, MapTypes
  <2> QED BY <2>1
<1> QED BY <1>1 DEF Grown, Frames

\* Middleware that changes none of the maps: the layer entered is l.
EnterPlain(f) ==
    /\ mode = "down" /\ mode' = "down" /\ Plain(f) /\ UNCHANGED <<maps, serving>>
    /\ f.i = top.i + 1 /\ top.i < Len(layers[top.mux])
    /\ layers[top.mux][top.i + 1] \notin {"Router", "SubRouter"}
    /\ f.params = top.params

LEMMA EnterPlainStep ==
    ASSUME Shape,
           \/ \E l \in {"EnvInit", "URLQuery", "RequestID"} : EnterEnvMaker(l)
           \/ EnterRecoverer \/ EnterLogger \/ EnterAutomaticOptions
    PROVE  \E f : EnterPlain(f)
<1>1. /\ top \in Frames /\ depth \in Nat /\ top.i \in 0 .. Len(layers[top.mux])
      /\ Len(layers[top.mux]) \in Nat
  BY TopFacts, LenProperties DEF Shape, MapTypes
<1>2. Grown(top) /\ Grown(WithEnv(top)) /\ WithEnv(top).saved = top.saved
      /\ WithEnv(top).i = top.i /\ WithEnv(top).params = top.params
  BY <1>1, WithEnvFacts DEF Grown
<1>3. PICK g \in {top, WithEnv(top)} :
         /\ mode = "down" /\ mode' = "down" /\ Top(Next1(g)) /\ UNCHANGED <<config, path, maps, serving>>
         /\ top.i < Len(layers[top.mux]) /\ layers[top.mux][top.i + 1] \notin {"Router", "SubRouter"}
  BY DEF EnterEnvMaker, EnterRecoverer, EnterLogger, EnterAutomaticOptions, Enter
<1> DEFINE f == [g EXCEPT !.i = top.i + 1]
<1>4. Next1(g) = f
  BY <1>2 DEF Next1
<1>5. top.i + 1 \in 0 .. Len(layers[top.mux])
  BY <1>1, <1>3
<1>6. Grown(f) /\ f.i = top.i + 1 /\ f.saved = top.saved /\ f.params = top.params
  BY <1>2, <1>5, StepTo
<1> HIDE DEF f
<1>7. TopStep(f)
  <2>1. /\ envs' = envs /\ params' = params /\ path' = path
        /\ envs \in [1 .. MaxDepth -> EnvTypes] /\ params \in [1 .. MaxDepth -> ParamTypes]
        /\ path \in Paths
    BY <1>3 DEF maps, Shape, MapTypes, EnvTypes, ParamTypes
  <2> QED BY <1>3, <1>4, <1>5, <1>6, <2>1 DEF TopStep
<1> QED BY <1>3, <1>6, <1>7 DEF EnterPlain, Plain

\* Router sets the match to what routing finds.
EnterRouting(f) ==
    /\ mode = "down" /\ mode' = "down" /\ Plain(f) /\ UNCHANGED serving
    /\ f.i = top.i + 1 /\ top.i < Len(layers[top.mux]) /\ layers[top.mux][top.i + 1] = "Router"
    /\ f.params = Routed.params /\ params' = BoundParams
    /\ f.env # 0 /\ envs'[f.env].match = Chosen(top.mux)
    /\ envs'[f.env].methods = ToldEnvs[f.env].methods
    /\ Tells(top.mux) \/ f.env = (IF top.env = 0 THEN depth ELSE top.env)

LEMMA EnterRoutingStep == ASSUME Shape, EnterRouter PROVE \E f : EnterRouting(f)
<1> DEFINE g == WithEnv(Routed)
           f == [g EXCEPT !.i = top.i + 1]
<1>1. /\ depth \in 1 .. MaxDepth /\ depth \in Nat /\ MaxDepth \in Nat
      /\ top.i \in 0 .. Len(layers[top.mux]) /\ top.mux \in Muxes
      /\ top.env \in 0 .. depth
  BY TopFacts DEF Shape
<1>2. Len(layers[top.mux]) \in Nat
  BY <1>1, LenProperties DEF Shape, MapTypes
<1>3. /\ Grown(Routed) /\ Routed.i = top.i /\ Routed.saved = top.saved
      /\ BoundParams \in [1 .. MaxDepth -> ParamTypes]
      /\ \A d \in 1 .. MaxDepth : d # Routed.params => BoundParams[d] = params[d]
      /\ ToldEnvs \in [1 .. MaxDepth -> EnvTypes]
      /\ \A d \in 1 .. MaxDepth : d # Routed.env => ToldEnvs[d] = envs[d]
      /\ ~Tells(top.mux) => Routed.env = top.env
  BY GetMatchFacts DEF Shape
<1>4. /\ Grown(g) /\ g.i = top.i /\ g.saved = top.saved /\ g.params = Routed.params
      /\ g.env = IF Routed.env = 0 THEN depth ELSE Routed.env
  <2>1. Routed \in Frames
    BY <1>3 DEF Grown
  <2>2. /\ g \in Frames /\ g.mux = Routed.mux /\ g.i = Routed.i /\ g.called = Routed.called
        /\ g.saved = Routed.saved /\ g.params = Routed.params
        /\ g.env = IF Routed.env = 0 THEN depth ELSE Routed.env
    BY <1>1, <2>1, WithEnvFacts
  <2> HIDE DEF g
  <2> QED BY <1>3, <2>2 DEF Grown
<1>5. /\ mode = "down" /\ mode' = "down" /\ serving' = serving /\ path' = path
      /\ top.i < Len(layers[top.mux]) /\ layers[top.mux][top.i + 1] = "Router"
      /\ Top(Next1(g)) /\ UNCHANGED config /\ params' = BoundParams
      /\ envs' = [ToldEnvs EXCEPT ![g.env].match = Chosen(top.mux)]
  BY DEF EnterRouter, GetMatch, Enter
<1> HIDE DEF g
<1>6. Next1(g) = f
  BY <1>4 DEF Next1
<1>7. top.i + 1 \in 0 .. Len(layers[top.mux])
  BY <1>1, <1>2, <1>5
<1>8. /\ Grown(f) /\ f.i = top.i + 1 /\ f.saved = top.saved /\ f.params = Routed.params
      /\ f.env = g.env
  BY <1>4, <1>7, StepTo
<1>9. f.env \in 1 .. MaxDepth /\ f.env # 0 /\ (Routed.env # 0 => f.env = Routed.env)
  BY <1>1, <1>3, <1>4, <1>8 DEF Grown
<1>10. Chosen(top.mux) \in Matched
  BY <1>1, ChosenFacts
<1> HIDE DEF f
<1>11. /\ envs' \in [1 .. MaxDepth -> EnvTypes]
       /\ envs'[f.env].match = Chosen(top.mux)
       /\ envs'[f.env].methods = ToldEnvs[f.env].methods
       /\ \A d \in 1 .. MaxDepth : d # f.env => envs'[d] = ToldEnvs[d]
  <2>1. envs' = [ToldEnvs EXCEPT ![f.env] = [ToldEnvs[f.env] EXCEPT !.match = Chosen(top.mux)]]
    BY <1>5, <1>8
  <2>2. ToldEnvs[f.env] \in EnvTypes
    BY <1>3, <1>9
  <2>3. /\ [ToldEnvs[f.env] EXCEPT !.match = Chosen(top.mux)] \in EnvTypes
        /\ [ToldEnvs[f.env] EXCEPT !.match = Chosen(top.mux)].match = Chosen(top.mux)
        /\ [ToldEnvs[f.env] EXCEPT !.match = Chosen(top.mux)].methods = ToldEnvs[f.env].methods
    BY <1>10, <2>2 DEF EnvTypes
  <2> QED BY <1>3, <1>9, <2>1, <2>3
<1>12. \A d \in 1 .. MaxDepth : d # f.env => envs'[d] = envs[d]
  BY <1>3, <1>9, <1>11
<1>13. TopStep(f)
  <2>1. path' \in Paths
    BY <1>5 DEF Shape, MapTypes
  <2>2. f.i \in 0 .. Len(layers[top.mux])
    BY <1>7, <1>8
  <2> QED BY <1>3, <1>5, <1>6, <1>8, <1>11, <1>12, <2>1, <2>2 DEF TopStep
<1>14. Tells(top.mux) \/ f.env = (IF top.env = 0 THEN depth ELSE top.env)
  BY <1>3, <1>4, <1>8
<1> QED BY <1>5, <1>8, <1>9, <1>11, <1>13, <1>14 DEF EnterRouting, Plain

\* The mux on top has the maps it had, with this match in its Env, if it has one.
SameMaps(f) == f.env = top.env /\ f.params = top.params /\ params' = params
Matching(match) ==
    /\ top.env = 0 => envs' = envs
    /\ top.env # 0 => envs'[top.env].match = match /\ envs'[top.env].methods = envs[top.env].methods

\* An Env with another match.
LEMMA MatchIsSet ==
    ASSUME Shape, top.env # 0, NEW match \in Matched,
           envs' = [envs EXCEPT ![top.env] = [envs[top.env] EXCEPT !.match = match]]
    PROVE  /\ envs' \in [1 .. MaxDepth -> EnvTypes] /\ Matching(match)
           /\ \A d \in 1 .. MaxDepth : d # top.env => envs'[d] = envs[d]
<1>1. top.env \in 1 .. MaxDepth /\ envs \in [1 .. MaxDepth -> EnvTypes]
  BY TopFacts DEF Shape, MapTypes, EnvTypes
<1>2. envs[top.env] \in EnvTypes
  BY <1>1
<1>3. /\ [envs[top.env] EXCEPT !.match = match] \in EnvTypes
      /\ [envs[top.env] EXCEPT !.match = match].match = match
      /\ [envs[top.env] EXCEPT !.match = match].methods = envs[top.env].methods
  BY <1>2 DEF EnvTypes
<1> QED BY <1>1, <1>3 DEF Matching

\* An Env that is set to what it is.
LEMMA MatchIsKept ==
    ASSUME Shape, envs' = envs
    PROVE  /\ envs' \in [1 .. MaxDepth -> EnvTypes] /\ Matching(MatchOf(top))
           /\ \A d \in 1 .. MaxDepth : envs'[d] = envs[d]
BY DEF Shape, MapTypes, EnvTypes, Matching, MatchOf

\* SubRouter keeps path and match, and goes on with the suffix and no match.
EnterStripping(f) ==
    /\ mode = "down" /\ mode' = "down" /\ TopStep(f) /\ SameMaps(f) /\ UNCHANGED serving
    /\ f.i = top.i + 1 /\ top.i < Len(layers[top.mux]) /\ layers[top.mux][top.i + 1] = "SubRouter"
    /\ \/ Suffix(top) = NoPath /\ f.saved = top.saved /\ path' = path /\ envs' = envs
       \/ /\ Suffix(top) # NoPath
          /\ f.saved = top.saved \cup {[i |-> top.i + 1, path |-> path, match |-> MatchOf(top)]}
          /\ path' = Suffix(top) /\ Matching(NoMatch)

\* A match is a route or nothing.
LEMMA MatchIsMatched == ASSUME Shape PROVE MatchOf(top) \in Matched
BY TopFacts DEF Shape, MapTypes, MatchOf, Matched

\* The suffix, if there is one, is a path.
LEMMA SuffixIsPath == ASSUME Shape PROVE Suffix(top) \in Paths \cup {NoPath}
BY TopFacts DEF Shape, MapTypes, Suffix

LEMMA EnterStrippingStep == ASSUME Shape, EnterSubRouter PROVE \E f : EnterStripping(f)
<1> DEFINE old == [i |-> top.i + 1, path |-> path, match |-> MatchOf(top)]
           g == IF Suffix(top) = NoPath THEN top ELSE [top EXCEPT !.saved = top.saved \cup {old}]
           f == [g EXCEPT !.i = top.i + 1]
<1>1. /\ depth \in 1 .. MaxDepth /\ top \in Frames /\ top.i \in 0 .. Len(layers[top.mux])
      /\ Len(layers[top.mux]) \in Nat /\ top.saved \subseteq Olds /\ top.i + 1 \in Nat
  <2>1. top.i \in 0 .. Len(layers[top.mux]) /\ Len(layers[top.mux]) \in Nat
    BY TopFacts, LenProperties DEF Shape, MapTypes
  <2>2. top.i + 1 \in Nat
    BY <2>1
  <2> QED BY <2>1, <2>2, TopFacts DEF Shape
<1>2. path \in Paths
  BY DEF Shape, MapTypes
<1>3. old \in Olds
  BY <1>1, <1>2, MatchIsMatched DEF Olds
<1>4. /\ mode = "down" /\ mode' = "down" /\ serving' = serving /\ params' = params
      /\ UNCHANGED config /\ top.i < Len(layers[top.mux])
      /\ layers[top.mux][top.i + 1] = "SubRouter" /\ Top(Next1(g))
      /\ (IF Suffix(top) = NoPath THEN path' = path /\ envs' = envs
          ELSE path' = Suffix(top) /\ envs' = Unset(top))
  BY DEF EnterSubRouter, Enter
<1>5. /\ Grown(g) /\ g.i = top.i /\ g.env = top.env /\ g.params = top.params
      /\ g.saved = IF Suffix(top) = NoPath THEN top.saved ELSE top.saved \cup {old}
  <2>1. top.saved \cup {old} \subseteq Olds
    BY <1>1, <1>3
  <2> HIDE DEF old
  <2> QED BY <1>1, <2>1 DEF Grown, Frames
<1> HIDE DEF g
<1>6. top.i + 1 \in 0 .. Len(layers[top.mux])
  BY <1>1, <1>4
<1>7. /\ Grown(f) /\ f.i = top.i + 1 /\ f.saved = g.saved /\ f.params = top.params
      /\ f.env = top.env
  BY <1>5, <1>6, StepTo
<1>8. Next1(g) = f
  BY <1>5 DEF Next1
<1> HIDE DEF f
<1>9. path' \in Paths
  BY <1>2, <1>4, SuffixIsPath
<1>10. /\ envs' \in [1 .. MaxDepth -> EnvTypes]
       /\ \A d \in 1 .. MaxDepth : d # top.env => envs'[d] = envs[d]
       /\ Suffix(top) # NoPath => Matching(NoMatch)
  <2>1. CASE envs' = envs /\ (Suffix(top) = NoPath \/ MatchOf(top) = NoMatch)
    BY <2>1, MatchIsKept
  <2>2. CASE envs' # envs \/ (Suffix(top) # NoPath /\ MatchOf(top) # NoMatch)
    <3>1. Suffix(top) # NoPath /\ envs' = Unset(top) /\ MatchOf(top) # NoMatch
      BY <1>4, <2>2 DEF Unset
    <3>2. top.env # 0 /\ NoMatch \in Matched
      BY <3>1 DEF MatchOf, Matched
    <3>3. envs' = [envs EXCEPT ![top.env] = [envs[top.env] EXCEPT !.match = NoMatch]]
      BY <3>1 DEF Unset
    <3> QED BY <3>2, <3>3, MatchIsSet
  <2> QED BY <1>4, <2>1, <2>2
<1>11. params' \in [1 .. MaxDepth -> ParamTypes]
  BY <1>4 DEF Shape, MapTypes, ParamTypes
<1>12. TopStep(f) /\ SameMaps(f)
  BY <1>4, <1>6, <1>7, <1>8, <1>9, <1>10, <1>11 DEF TopStep, SameMaps
<1> QED BY <1>4, <1>5, <1>7, <1>10, <1>12 DEF EnterStripping

\* A layer other than SubRouter is left.
LeavePlain(f) ==
    /\ mode \in {"up", "panic"} /\ mode' \in {"up", "panic"} /\ Plain(f) /\ SameMaps(f)
    /\ envs' = envs /\ f.i = top.i - 1 /\ top.i > 0 /\ layers[top.mux][top.i] # "SubRouter"

LEMMA LeavePlainStep ==
    ASSUME Shape,
           \/ \E l \in {"EnvInit", "URLQuery", "RequestID", "Router"} : LeaveOther(l)
           \/ LeaveAutomaticOptions \/ LeaveLogger \/ LeaveRecoverer
    PROVE  \E f : LeavePlain(f)
<1> DEFINE f == [top EXCEPT !.i = top.i - 1]
<1>1. /\ top \in Frames /\ depth \in Nat /\ top.i \in 0 .. Len(layers[top.mux])
      /\ Len(layers[top.mux]) \in Nat
  BY TopFacts, LenProperties DEF Shape, MapTypes
<1>2. /\ mode \in {"up", "panic"} /\ mode' \in {"up", "panic"} /\ top.i > 0
      /\ layers[top.mux][top.i] # "SubRouter" /\ Top(Next0(top))
      /\ UNCHANGED <<config, path, envs, params>>
  <2>1. CASE \E l \in {"EnvInit", "URLQuery", "RequestID", "Router"} : LeaveOther(l)
    BY <2>1 DEF LeaveOther, Leave
  <2>2. CASE LeaveAutomaticOptions \/ LeaveLogger \/ LeaveRecoverer
    BY <2>2 DEF LeaveAutomaticOptions, LeaveLogger, LeaveRecoverer, Leave
  <2> QED BY <2>1, <2>2
<1>3. top.i - 1 \in 0 .. Len(layers[top.mux])
  BY <1>1, <1>2
<1>4. Grown(top)
  BY <1>1 DEF Grown
<1>5. /\ Grown(f) /\ f.i = top.i - 1 /\ f.saved = top.saved /\ f.params = top.params
      /\ f.env = top.env
  BY <1>3, <1>4, StepTo
<1>6. Next0(top) = f
  BY DEF Next0
<1> HIDE DEF f
<1>7. TopStep(f)
  <2>1. /\ envs' \in [1 .. MaxDepth -> EnvTypes] /\ params' \in [1 .. MaxDepth -> ParamTypes]
        /\ path' \in Paths
    BY <1>2 DEF Shape, MapTypes, EnvTypes, ParamTypes
  <2> QED BY <1>2, <1>3, <1>5, <1>6, <2>1 DEF TopStep
<1> QED BY <1>2, <1>5, <1>7 DEF LeavePlain, Plain, SameMaps

\* SubRouter puts back what it has kept.
LeaveStripping(f) ==
    /\ mode \in {"up", "panic"} /\ mode' = mode /\ TopStep(f) /\ SameMaps(f) /\ UNCHANGED serving
    /\ f.i = top.i - 1 /\ top.i > 0 /\ layers[top.mux][top.i] = "SubRouter"
    /\ f.saved = {old \in top.saved : old.i # top.i}
    /\ \/ (\A old \in top.saved : old.i # top.i) /\ path' = path /\ envs' = envs
       \/ \E old \in top.saved : old.i = top.i /\ path' = old.path /\ Matching(old.match)

LEMMA LeaveStrippingStep == ASSUME Shape, LeaveSubRouter PROVE \E f : LeaveStripping(f)
<1> DEFINE g == [top EXCEPT !.saved = {old \in top.saved : old.i # top.i}]
           f == [g EXCEPT !.i = top.i - 1]
<1>1. /\ top \in Frames /\ depth \in Nat /\ top.i \in 0 .. Len(layers[top.mux])
      /\ Len(layers[top.mux]) \in Nat /\ top.saved \subseteq Olds
  BY TopFacts, LenProperties DEF Shape, MapTypes
<1>2. /\ mode \in {"up", "panic"} /\ mode' = mode /\ top.i > 0
      /\ layers[top.mux][top.i] = "SubRouter" /\ Top(Next0(g))
      /\ UNCHANGED <<config, params, serving>>
      /\ \/ Restores = {} /\ UNCHANGED <<path, envs>>
         \/ \E old \in Restores :
               /\ path' = old.path
               /\ envs' = IF top.env = 0 THEN envs
                          ELSE [envs EXCEPT ![top.env] = Reset(@, old.match)]
  BY DEF LeaveSubRouter, Leave
<1>3. top.i - 1 \in 0 .. Len(layers[top.mux])
  BY <1>1, <1>2
<1>4. /\ Grown(g) /\ g.i = top.i /\ g.env = top.env /\ g.params = top.params
      /\ g.saved = {old \in top.saved : old.i # top.i}
  <2> DEFINE rest == {old \in top.saved : old.i # top.i}
  <2>1. rest \subseteq Olds
    BY <1>1
  <2> HIDE DEF rest
  <2>2. g = [top EXCEPT !.saved = rest]
    BY DEF rest
  <2> HIDE DEF g
  <2>3. /\ Grown(g) /\ g.i = top.i /\ g.env = top.env /\ g.params = top.params
        /\ g.saved = rest
    BY <1>1, <2>1, <2>2 DEF Grown, Frames
  <2> QED BY <2>3 DEF rest
<1> HIDE DEF g
<1>5. /\ Grown(f) /\ f.i = top.i - 1 /\ f.saved = g.saved /\ f.params = top.params
      /\ f.env = top.env
  BY <1>3, <1>4, StepTo
<1>6. Next0(g) = f
  BY <1>4 DEF Next0
<1> HIDE DEF f
<1>7. /\ envs' \in [1 .. MaxDepth -> EnvTypes] /\ path' \in Paths
      /\ \A d \in 1 .. MaxDepth : d # top.env => envs'[d] = envs[d]
      /\ \/ (\A old \in top.saved : old.i # top.i) /\ path' = path /\ envs' = envs
         \/ \E old \in top.saved : old.i = top.i /\ path' = old.path /\ Matching(old.match)
  <2>1. CASE Restores = {} /\ path' = path /\ envs' = envs
    <3>1. \A old \in top.saved : old.i # top.i
      BY <2>1 DEF Restores
    <3>2. path' \in Paths
      BY <2>1 DEF Shape, MapTypes
    <3> QED BY <2>1, <3>1, <3>2, MatchIsKept
  <2>2. ASSUME NEW old \in Restores, path' = old.path,
               envs' = IF top.env = 0 THEN envs
                       ELSE [envs EXCEPT ![top.env] = Reset(@, old.match)]
        PROVE  /\ envs' \in [1 .. MaxDepth -> EnvTypes] /\ path' \in Paths
               /\ \A d \in 1 .. MaxDepth : d # top.env => envs'[d] = envs[d]
               /\ old \in top.saved /\ old.i = top.i /\ Matching(old.match)
    <3>1. old \in top.saved /\ old.i = top.i /\ old.path \in Paths /\ old.match \in Matched
      BY <1>1 DEF Restores, Olds
    <3>2. CASE top.env = 0
      BY <2>2, <3>1, <3>2, MatchIsKept DEF Matching
    <3>3. CASE top.env # 0
      <4>1. envs' = [envs EXCEPT ![top.env] = [envs[top.env] EXCEPT !.match = old.match]]
        BY <2>2, <3>3 DEF Reset
      <4> QED BY <2>2, <3>1, <3>3, <4>1, MatchIsSet
    <3> QED BY <3>2, <3>3
  <2> QED BY <1>2, <2>1, <2>2
<1>8. params' \in [1 .. MaxDepth -> ParamTypes]
  BY <1>2 DEF Shape, MapTypes, ParamTypes
<1>9. TopStep(f) /\ SameMaps(f)
  BY <1>2, <1>3, <1>5, <1>6, <1>7, <1>8 DEF TopStep, SameMaps
<1> QED BY <1>2, <1>4, <1>5, <1>7, <1>9 DEF LeaveStripping

\* What router.route goes on with: the match that is set, or what it finds.
LEMMA FoundFacts ==
    ASSUME Shape
    PROVE  /\ Grown(Found.frame) /\ Found.frame.i = top.i /\ Found.frame.saved = top.saved
           /\ Found.match \in Matched /\ Found.match # NoMatch
           /\ Found.params \in [1 .. MaxDepth -> ParamTypes]
           /\ \A d \in 1 .. MaxDepth : d # Found.frame.params => Found.params[d] = params[d]
           /\ Found.envs \in [1 .. MaxDepth -> EnvTypes]
           /\ \A d \in 1 .. MaxDepth : d # Found.frame.env => Found.envs[d] = envs[d]
           /\ \A d \in 1 .. MaxDepth : Found.envs[d].match = envs[d].match
           /\ MatchOf(top) # NoMatch => /\ Found.match = MatchOf(top) /\ Found.frame = top
                                        /\ Found.params = params /\ Found.envs = envs
           /\ MatchOf(top) = NoMatch =>
                 /\ Found.match = Chosen(top.mux) /\ Found.frame = Routed
                 /\ Found.params = BoundParams /\ Found.envs = ToldEnvs
<1>1. CASE MatchOf(top) # NoMatch
  <2>1. Found = [match |-> MatchOf(top), frame |-> top, params |-> params, envs |-> envs]
    BY <1>1 DEF Found
  <2>2. Grown(top)
    BY TopFacts DEF Shape, Grown
  <2>3. envs \in [1 .. MaxDepth -> EnvTypes] /\ params \in [1 .. MaxDepth -> ParamTypes]
    BY DEF Shape, MapTypes, EnvTypes, ParamTypes
  <2> QED BY <1>1, <2>1, <2>2, <2>3, MatchIsMatched
<1>2. CASE MatchOf(top) = NoMatch
  <2>1. Found = [match |-> Chosen(top.mux), frame |-> Routed, params |-> BoundParams,
                 envs |-> ToldEnvs]
    BY <1>2 DEF Found, GetMatch
  <2>2. top.mux \in Muxes
    BY TopFacts DEF Shape
  <2> QED BY <1>2, <2>1, <2>2, ChosenFacts, GetMatchFacts DEF Shape
<1> QED BY <1>1, <1>2

\* A handler is called.
CallHandler(f) ==
    /\ mode = "down" /\ mode' = "handler" /\ Plain(f) /\ f = Found.frame /\ top.i = f.i
    /\ serving' = Found.match.handler /\ envs' = Found.envs /\ params' = Found.params

LEMMA CallHandlerStep == ASSUME Shape, RouteToHandler PROVE CallHandler(Found.frame)
<1>1. /\ mode = "down" /\ mode' = "handler" /\ UNCHANGED <<config, path>>
      /\ serving' = Found.match.handler /\ Top(Found.frame)
      /\ envs' = Found.envs /\ params' = Found.params
  BY DEF RouteToHandler, Route
<1>2. top.i \in 0 .. Len(layers[top.mux]) /\ path' \in Paths
  BY <1>1, TopFacts DEF Shape, MapTypes
<1> QED BY <1>1, <1>2, FoundFacts DEF CallHandler, Plain, TopStep

\* A mux is called.
CallMux(e) ==
    LET f == Found.frame IN
    /\ mode = "down" /\ mode' = "down" /\ UNCHANGED <<config, path, serving>>
    /\ depth < MaxDepth /\ depth' = depth + 1 /\ frames' \in Seq(Frames)
    /\ \A d \in 1 .. depth - 1 : frames'[d] = frames[d]
    /\ frames'[depth] = f /\ frames'[depth + 1] = e /\ top' = e
    /\ e.mux = Found.match.handler /\ e.i = 0 /\ e.saved = {} /\ e.env = f.env /\ e.params = f.params
    /\ e.called.path = path /\ e.called.tail = Found.match.tail
    /\ Found.match.tail # "exact" => e.called.rest = Rest(Found.match)
    /\ e.called.match = IF f.env = 0 THEN NoMatch ELSE Found.envs[f.env].match
    /\ Found.match \in Mounts /\ Found.match \in AllRoutes
    /\ envs' \in [1 .. MaxDepth -> EnvTypes] /\ params' \in [1 .. MaxDepth -> ParamTypes]
    /\ \A d \in 1 .. MaxDepth : envs'[d] = IF d = depth + 1 THEN EmptyEnv ELSE Found.envs[d]
    /\ \A d \in 1 .. MaxDepth : params'[d] = IF d = depth + 1 THEN EmptyParams ELSE Found.params[d]

LEMMA CallMuxStep == ASSUME Shape, RouteToMux PROVE \E e : CallMux(e)
<1> DEFINE f == Found.frame
           r == Found.match
           called == [path  |-> path,
                      match |-> IF f.env = 0 THEN NoMatch ELSE Found.envs[f.env].match,
                      rest  |-> IF r.tail = "exact" THEN path ELSE Rest(r),
                      tail  |-> r.tail]
           e == [mux |-> r.handler, i |-> 0, params |-> f.params, env |-> f.env, saved |-> {},
                 called |-> called]
<1>1. /\ mode = "down" /\ UNCHANGED <<config, path, mode, serving>>
      /\ r.handler \in Muxes /\ depth < MaxDepth
      /\ frames' = Append([frames EXCEPT ![depth] = f], Callee(r, f, Found.envs))
      /\ envs' = [Found.envs EXCEPT ![depth + 1] = EmptyEnv]
      /\ params' = [Found.params EXCEPT ![depth + 1] = EmptyParams]
  BY DEF RouteToMux, Route
<1>2. Callee(r, f, Found.envs) = e
  BY DEF Callee, Frame
<1>3. /\ depth \in 1 .. MaxDepth /\ depth \in Nat /\ MaxDepth \in Nat /\ frames \in Seq(Frames)
      /\ path \in Paths
  BY TopFacts DEF Shape, FrameTypes, MapTypes
<1>4. r \in Mounts /\ r \in AllRoutes
  BY <1>1, FoundFacts, MountFacts
<1>5. r.tail \in Tails /\ Rest(r) \in Paths
  BY <1>3, <1>4, RouteFacts, RestIsPath
<1>6. Grown(f) /\ f.env \in 0 .. MaxDepth /\ f.params \in 0 .. MaxDepth
  BY <1>3, TopFacts, FoundFacts DEF Shape, Grown
<1>7. Found.envs \in [1 .. MaxDepth -> EnvTypes] /\ Found.params \in [1 .. MaxDepth -> ParamTypes]
  BY FoundFacts
<1>8. (IF f.env = 0 THEN NoMatch ELSE Found.envs[f.env].match) \in Matched
  <2>1. NoMatch \in Matched
    BY DEF Matched
  <2>2. f.env # 0 => Found.envs[f.env] \in EnvTypes
    <3> HIDE DEF f
    <3> QED BY <1>3, <1>6, <1>7
  <2> QED BY <2>1, <2>2 DEF EnvTypes
<1>9. called \in Calls
  BY <1>3, <1>5, <1>8 DEF Calls
<1>10. f \in Frames /\ f.env \in Nat /\ f.params \in Nat
  BY <1>6 DEF Grown, Frames
<1> HIDE DEF f, r
<1>11. e \in Frames
  <2> HIDE DEF called
  <2> QED BY <1>1, <1>9, <1>10 DEF Frames
<1>12. /\ e.mux = r.handler /\ e.i = 0 /\ e.saved = {} /\ e.env = f.env /\ e.params = f.params
       /\ e.called = called
  OBVIOUS
<1>13. /\ called.path = path /\ called.tail = r.tail /\ (r.tail # "exact" => called.rest = Rest(r))
       /\ called.match = IF f.env = 0 THEN NoMatch ELSE Found.envs[f.env].match
  OBVIOUS
<1> HIDE DEF e, called
<1> DEFINE g == [frames EXCEPT ![depth] = f]
<1>14. /\ g \in Seq(Frames) /\ Len(g) = depth
       /\ \A d \in 1 .. depth : g[d] = IF d = depth THEN f ELSE frames[d]
  <2>1. Len(frames) = depth /\ depth \in 1 .. depth
    BY <1>3 DEF depth
  <2> HIDE DEF depth
  <2> QED BY <1>3, <1>10, <2>1, ExceptSeq
<1> HIDE DEF g
<1>15. frames' = Append(g, e)
  BY <1>1, <1>2 DEF g
<1>16. /\ frames' \in Seq(Frames) /\ Len(frames') = depth + 1
       /\ \A d \in 1 .. depth : frames'[d] = g[d]
       /\ frames'[depth + 1] = e
  BY <1>11, <1>14, <1>15, AppendProperties
<1>17. depth' = depth + 1
  BY <1>16 DEF depth
<1>18. top' = e
  BY <1>16, <1>17 DEF top
<1>19. /\ \A d \in 1 .. depth - 1 : frames'[d] = frames[d]
       /\ frames'[depth] = f
  BY <1>3, <1>14, <1>16
<1>20. /\ envs' \in [1 .. MaxDepth -> EnvTypes]
       /\ \A d \in 1 .. MaxDepth : envs'[d] = IF d = depth + 1 THEN EmptyEnv ELSE Found.envs[d]
  <2>1. EmptyEnv \in EnvTypes
    <3>1. NoMatch \in Matched /\ NoMethods \in (SUBSET Methods) \cup {NoMethods}
      BY DEF Matched
    <3> QED BY <3>1 DEF EmptyEnv, EnvTypes
  <2> QED BY <1>1, <1>3, <1>7, <2>1
<1>21. /\ params' \in [1 .. MaxDepth -> ParamTypes]
       /\ \A d \in 1 .. MaxDepth : params'[d] = IF d = depth + 1 THEN EmptyParams ELSE Found.params[d]
  <2>1. EmptyParams \in ParamTypes
    BY DEF EmptyParams, ParamTypes
  <2> QED BY <1>1, <1>3, <1>7, <2>1
<1>22. CallMux(e)
  BY <1>1, <1>4, <1>12, <1>13, <1>16, <1>17, <1>18, <1>19, <1>20, <1>21 DEF CallMux, f, r
<1> QED BY <1>22

\* A mux is left for the one that called it.
Pop ==
    /\ mode \in {"up", "panic"} /\ mode' = mode /\ UNCHANGED <<config, path, maps, serving>>
    /\ depth > 1 /\ top.i = 0 /\ depth' = depth - 1 /\ frames' \in Seq(Frames)
    /\ \A d \in 1 .. depth - 1 : frames'[d] = frames[d]
    /\ top' = frames[depth - 1]

LEMMA PopStep == ASSUME Shape, LeaveMux, depth > 1 PROVE Pop
<1>1. /\ mode \in {"up", "panic"} /\ top.i = 0 /\ frames' = Front(frames)
      /\ UNCHANGED <<config, path, maps, serving, mode>>
  BY DEF LeaveMux
<1>2. depth \in Nat /\ Len(frames) = depth /\ frames \in Seq(Frames)
  BY TopFacts DEF Shape, FrameTypes, depth
<1>3. frames' = SubSeq(frames, 1, depth - 1)
  BY <1>1, <1>2 DEF Front
<1>4. /\ frames' \in Seq(Frames) /\ Len(frames') = depth - 1
      /\ \A d \in 1 .. depth - 1 : frames'[d] = frames[d]
  <2>1. depth - 1 \in 0 .. Len(frames)
    BY <1>2
  <2> HIDE DEF depth
  <2> QED BY <1>2, <1>3, <2>1, SubSeqProperties
<1>5. depth' = depth - 1
  BY <1>4 DEF depth
<1>6. top' = frames[depth - 1]
  BY <1>2, <1>4, <1>5 DEF top
<1> QED BY <1>1, <1>4, <1>5, <1>6 DEF Pop

\* Nobody is entered or left, and nothing is changed but by whoever runs.
Stays == UNCHANGED <<config, path, maps, frames>> /\ mode' \in Modes \ {"down"}

\* Every step is one of these.
LEMMA Steps ==
    ASSUME Shape, mode \in Modes, Next
    PROVE  \/ \E f : EnterPlain(f)
           \/ \E f : EnterRouting(f)
           \/ \E f : EnterStripping(f)
           \/ CallHandler(Found.frame)
           \/ \E e : CallMux(e)
           \/ \E f : LeavePlain(f)
           \/ \E f : LeaveStripping(f)
           \/ Pop
           \/ Stays
<1>1. CASE EnterLayer
  BY <1>1, EnterPlainStep, EnterRoutingStep, EnterStrippingStep DEF EnterLayer
<1>2. CASE Routing
  <2>1. CASE RouteTooDeep
    BY <2>1 DEF RouteTooDeep, Route, Stays, Modes
  <2> QED BY <1>2, <2>1, CallHandlerStep, CallMuxStep DEF Routing
<1>3. CASE Handler
  BY <1>3 DEF Handler, CallWriteHeader, CallWrite, CallFlush, CallReadFrom, Call,
              HandlerReturn, HandlerPanic, ServeNotFound, Stays, Modes
<1>4. CASE LeaveLayer
  BY <1>4, LeavePlainStep, LeaveStrippingStep DEF LeaveLayer
<1>5. CASE LeaveMux
  <2>1. CASE depth > 1
    BY <1>5, <2>1, PopStep
  <2>2. CASE ~(depth > 1)
    BY <1>5, <2>2 DEF LeaveMux, Stays, Modes
  <2> QED BY <2>1, <2>2
<1> QED BY <1>1, <1>2, <1>3, <1>4, <1>5 DEF Next

\* What a mux that is called makes of the frames.
LEMMA CallMuxFrames ==
    ASSUME Shape, NEW e, CallMux(e)
    PROVE  /\ depth' = depth + 1 /\ depth + 1 \in 1 .. MaxDepth /\ depth \in Nat /\ depth \in 1 .. MaxDepth
           /\ top' = e /\ frames'[depth + 1] = e /\ layers' = layers
           /\ \A d \in 1 .. depth : /\ frames'[d].mux = frames[d].mux
                                    /\ frames'[d].i = frames[d].i
                                    /\ frames'[d].saved = frames[d].saved
                                    /\ frames'[d].called = frames[d].called
                                    /\ frames[d].env # 0 => frames'[d].env = frames[d].env
                                    /\ frames[d].params # 0 => frames'[d].params = frames[d].params
                                    /\ d < depth => frames'[d] = frames[d]
           /\ e.env = frames'[depth].env /\ e.params = frames'[depth].params
           /\ e.env = top.env \/ (top.env = 0 /\ e.env = depth)
           /\ e.params = top.params \/ (top.params = 0 /\ e.params = depth)
           /\ e.env \in 0 .. depth /\ e.params \in 0 .. depth
<1>1. /\ depth \in 1 .. MaxDepth /\ MaxDepth \in Nat /\ depth \in Nat
      /\ top.env \in 0 .. depth /\ top.params \in 0 .. depth
  BY TopFacts DEF Shape
<1>2. depth + 1 \in 1 .. MaxDepth
  BY <1>1 DEF CallMux
<1>3. Grown(Found.frame) /\ Found.frame.i = top.i /\ Found.frame.saved = top.saved
  BY FoundFacts
<1>4. /\ frames'[depth] = Found.frame /\ frames'[depth + 1] = e /\ top' = e
      /\ \A d \in 1 .. depth - 1 : frames'[d] = frames[d]
      /\ e.env = Found.frame.env /\ e.params = Found.frame.params /\ depth' = depth + 1
  BY DEF CallMux
<1>5. /\ e.env = top.env \/ (top.env = 0 /\ e.env = depth)
      /\ e.params = top.params \/ (top.params = 0 /\ e.params = depth)
      /\ e.env \in 0 .. depth /\ e.params \in 0 .. depth
  BY <1>1, <1>3, <1>4 DEF Grown
<1>6. ASSUME NEW d \in 1 .. depth
      PROVE  /\ frames'[d].mux = frames[d].mux
             /\ frames'[d].i = frames[d].i
             /\ frames'[d].saved = frames[d].saved
             /\ frames'[d].called = frames[d].called
             /\ frames[d].env # 0 => frames'[d].env = frames[d].env
             /\ frames[d].params # 0 => frames'[d].params = frames[d].params
             /\ d < depth => frames'[d] = frames[d]
  <2>1. CASE d = depth
    BY <1>1, <1>3, <1>4, <2>1 DEF Grown, top
  <2>2. CASE d # depth
    BY <1>1, <1>4, <2>2
  <2> QED BY <2>1, <2>2
<1>7. layers' = layers
  BY DEF CallMux, config
<1> QED BY <1>1, <1>2, <1>4, <1>5, <1>6, <1>7

LEMMA CallMuxShape == ASSUME Shape, NEW e, CallMux(e) PROVE Shape'
<1>1. /\ depth \in 1 .. MaxDepth /\ MaxDepth \in Nat /\ depth \in Nat /\ top.i \in 0 .. Len(layers[top.mux])
      /\ top.env \in 0 .. depth /\ top.params \in 0 .. depth /\ top = frames[depth]
  BY TopFacts DEF Shape, top
<1>2. MapTypes'
  BY DEF CallMux, config, Shape, MapTypes, EnvTypes, ParamTypes
<1>3. FrameTypes'
  <2>1. ASSUME NEW d \in 1 .. depth + 1
        PROVE  /\ frames'[d].env \in 0 .. d /\ frames'[d].params \in 0 .. d
               /\ frames'[d].i \in 0 .. Len(layers'[frames'[d].mux])
    <3>1. CASE d = depth + 1
      <4>1. e.mux \in Muxes /\ e.i = 0
        BY MountFacts DEF CallMux
      <4>2. Len(layers[e.mux]) \in Nat
        BY <4>1, LenProperties DEF Shape, MapTypes
      <4> QED BY <1>1, <3>1, <4>1, <4>2, CallMuxFrames
    <3>2. CASE d # depth + 1
      <4>1. d \in 1 .. depth
        BY <1>1, <3>2
      <4>2. /\ frames[d].env \in 0 .. d /\ frames[d].params \in 0 .. d
            /\ frames[d].i \in 0 .. Len(layers[frames[d].mux])
        BY <4>1 DEF Shape, FrameTypes
      <4>3. d = depth => frames'[d].env \in 0 .. d /\ frames'[d].params \in 0 .. d
        BY CallMuxFrames
      <4>4. d # depth => frames'[d] = frames[d]
        BY <1>1, <4>1, CallMuxFrames
      <4>5. /\ frames'[d].i = frames[d].i /\ frames'[d].mux = frames[d].mux
            /\ layers' = layers
        BY <4>1, CallMuxFrames
      <4> QED BY <4>2, <4>3, <4>4, <4>5
    <3> QED BY <3>1, <3>2
  <2>2. frames' \in Seq(Frames)
    BY DEF CallMux
  <2> QED BY <1>1, <2>1, <2>2, CallMuxFrames DEF FrameTypes
<1>4. Shared'
  <2> DEFINE n == depth + 1
  <2>1. \A d \in 1 .. n : /\ frames'[d].env = (IF d < depth THEN frames[d].env ELSE e.env)
                          /\ frames'[d].params = (IF d < depth THEN frames[d].params ELSE e.params)
    BY <1>1, CallMuxFrames
  <2>2. \A d \in 1 .. depth : frames[d].env # 0 => e.env = frames[d].env /\ frames[d].env \in 1 .. d
    BY <1>1, CallMuxFrames DEF Shape, Shared, FrameTypes
  <2>3. \A d \in 1 .. depth : frames[d].params # 0 => e.params = frames[d].params /\ frames[d].params \in 1 .. d
    BY <1>1, CallMuxFrames DEF Shape, Shared, FrameTypes
  <2>4. e.env # 0 => frames'[e.env].env = e.env
    BY <1>1, <2>1, <2>2, CallMuxFrames DEF Shape, Shared
  <2>5. e.params # 0 => frames'[e.params].params = e.params
    BY <1>1, <2>1, <2>3, CallMuxFrames DEF Shape, Shared
  <2>6. \A d \in 1 .. n : frames'[d].env # 0 => frames'[frames'[d].env].env = frames'[d].env
    BY <1>1, <2>1, <2>2, <2>4 DEF Shape, Shared
  <2>7. \A d \in 1 .. n : frames'[d].params # 0 => frames'[frames'[d].params].params = frames'[d].params
    BY <1>1, <2>1, <2>3, <2>5 DEF Shape, Shared
  <2>8. \A d, c \in 1 .. n : d <= c /\ frames'[d].env # 0 => frames'[c].env = frames'[d].env
    BY <1>1, <2>1, <2>2 DEF Shape, Shared
  <2>9. \A d, c \in 1 .. n : d <= c /\ frames'[d].params # 0 => frames'[c].params = frames'[d].params
    BY <1>1, <2>1, <2>3 DEF Shape, Shared
  <2>10. ASSUME NEW d \in 1 .. n, frames'[d].env # d PROVE envs'[d] = EmptyEnv
    <3>1. d \in 1 .. MaxDepth
      BY <1>1, CallMuxFrames
    <3>2. CASE d = n
      BY <3>1, <3>2 DEF CallMux
    <3>3. CASE d # n
      <4>1. d \in 1 .. depth /\ envs'[d] = Found.envs[d]
        BY <1>1, <3>1, <3>3 DEF CallMux
      <4>2. d # e.env
        BY <1>1, <2>1, <2>4, <2>10
      <4>3. Found.envs[d] = envs[d]
        BY <3>1, <4>2, FoundFacts DEF CallMux
      <4>4. frames[d].env # d
        BY <1>1, <2>1, <2>2, <2>10, <4>1, <4>2, CallMuxFrames
      <4> QED BY <4>1, <4>3, <4>4 DEF Shape, Shared
    <3> QED BY <3>2, <3>3
  <2>11. ASSUME NEW d \in 1 .. n, frames'[d].params # d PROVE params'[d] = EmptyParams
    <3>1. d \in 1 .. MaxDepth
      BY <1>1, CallMuxFrames
    <3>2. CASE d = n
      BY <3>1, <3>2 DEF CallMux
    <3>3. CASE d # n
      <4>1. d \in 1 .. depth /\ params'[d] = Found.params[d]
        BY <1>1, <3>1, <3>3 DEF CallMux
      <4>2. d # e.params
        BY <1>1, <2>1, <2>5, <2>11
      <4>3. Found.params[d] = params[d]
        BY <3>1, <4>2, FoundFacts DEF CallMux
      <4>4. frames[d].params # d
        BY <1>1, <2>1, <2>3, <2>11, <4>1, <4>2, CallMuxFrames
      <4> QED BY <4>1, <4>3, <4>4 DEF Shape, Shared
    <3> QED BY <3>2, <3>3
  <2>12. depth' = n
    BY CallMuxFrames
  <2> QED BY <2>6, <2>7, <2>8, <2>9, <2>10, <2>11, <2>12 DEF Shared
<1> QED BY <1>2, <1>3, <1>4 DEF Shape

LEMMA PopShape == ASSUME Shape, Pop PROVE Shape'
<1>1. /\ depth \in 1 .. MaxDepth /\ MaxDepth \in Nat /\ depth \in Nat
  BY TopFacts DEF Shape
<1>2. /\ depth' = depth - 1 /\ depth - 1 \in 1 .. MaxDepth /\ frames' \in Seq(Frames)
      /\ \A d \in 1 .. depth - 1 : frames'[d] = frames[d] /\ d \in 1 .. depth
      /\ layers' = layers /\ envs' = envs /\ params' = params /\ path' = path
  BY <1>1 DEF Pop, config, maps
<1>3. MapTypes'
  BY <1>2 DEF Shape, MapTypes
<1>4. FrameTypes'
  BY <1>2 DEF Shape, FrameTypes
<1>5. Shared'
  <2>1. \A d \in 1 .. depth - 1 : /\ frames[d].env # 0 => frames[d].env \in 1 .. depth - 1
                                  /\ frames[d].params # 0 => frames[d].params \in 1 .. depth - 1
    BY <1>1, <1>2 DEF Shape, FrameTypes
  <2>2. \A d \in 1 .. depth - 1 : frames[d].env # 0 => frames'[frames'[d].env].env = frames'[d].env
    BY <1>2, <2>1 DEF Shape, Shared
  <2>3. \A d \in 1 .. depth - 1 : frames[d].params # 0 => frames'[frames'[d].params].params = frames'[d].params
    BY <1>2, <2>1 DEF Shape, Shared
  <2>4. \A d, e \in 1 .. depth - 1 :
           /\ d <= e /\ frames'[d].env # 0 => frames'[e].env = frames'[d].env
           /\ d <= e /\ frames'[d].params # 0 => frames'[e].params = frames'[d].params
    BY <1>2 DEF Shape, Shared
  <2>5. \A d \in 1 .. depth - 1 : /\ frames'[d].env # d => envs'[d] = EmptyEnv
                                  /\ frames'[d].params # d => params'[d] = EmptyParams
    BY <1>2 DEF Shape, Shared
  <2> QED BY <1>2, <2>2, <2>3, <2>4, <2>5 DEF Shared
<1> QED BY <1>3, <1>4, <1>5 DEF Shape

LEMMA StaysShape == ASSUME Shape, Stays PROVE Shape'
BY DEF Stays, Shape, MapTypes, FrameTypes, Shared, depth, top, config, maps

LEMMA ShapeKept == ASSUME Shape, mode \in Modes, [Next]_vars PROVE Shape' /\ mode' \in Modes
<1>1. CASE UNCHANGED vars
  BY <1>1 DEF vars, config, maps, Shape, MapTypes, FrameTypes, Shared, depth, top
<1>2. CASE Next
  <2>1. CASE \E f : EnterPlain(f) \/ EnterRouting(f) \/ EnterStripping(f) \/ CallHandler(Found.frame)
                       \/ LeavePlain(f) \/ LeaveStripping(f)
    <3>1. (\E f : TopStep(f)) /\ mode' \in Modes
      BY <2>1 DEF EnterPlain, EnterRouting, EnterStripping, CallHandler, LeavePlain, LeaveStripping, Plain,
                  Modes
    <3> QED BY <3>1, TopStepShape
  <2>2. CASE \E e : CallMux(e)
    BY <2>2, CallMuxShape DEF CallMux, Modes
  <2>3. CASE Pop
    BY <2>3, PopShape DEF Pop, Modes
  <2>4. CASE Stays
    BY <2>4, StaysShape DEF Stays
  <2> QED BY <1>2, <2>1, <2>2, <2>3, <2>4, Steps
<1> QED BY <1>1, <1>2

-----------------------------------------------------------------------------
(* What SubRouter keeps, step by step.                                     *)

\* Where a mux has entered its layers; the top is the deepest frame.
LEMMA TopIsDeepest ==
    ASSUME Shape
    PROVE  top = frames[depth] /\ depth \in 1 .. depth /\ depth \in Nat
BY TopFacts DEF Shape, top

\* Below the top nothing changes, and at the top what f says.
LEMMA TopStepSaves ==
    ASSUME Shape, Saves, NEW f, TopStep(f),
           \A old \in f.saved : old.i \in 1 .. f.i /\ layers[top.mux][old.i] = "SubRouter",
           \A a, b \in f.saved : a.i = b.i => a = b
    PROVE  Saves'
<1>1. /\ depth' = depth /\ frames'[depth] = f /\ layers' = layers /\ f.mux = top.mux
      /\ \A d \in 1 .. depth - 1 : frames'[d] = frames[d]
  BY TopStepFrames DEF Shape, TopStep, Grown
<1>2. ASSUME NEW d \in 1 .. depth
      PROVE  /\ \A old \in frames'[d].saved :
                   old.i \in 1 .. frames'[d].i /\ layers[frames'[d].mux][old.i] = "SubRouter"
             /\ \A a, b \in frames'[d].saved : a.i = b.i => a = b
  <2>1. CASE d = depth
    BY <1>1, <2>1
  <2>2. CASE d # depth
    <3>1. frames'[d] = frames[d]
      BY <1>1, <2>2, TopIsDeepest
    <3> QED BY <3>1 DEF Saves
  <2> QED BY <2>1, <2>2
<1> QED BY <1>1, <1>2 DEF Saves

\* What is kept in the top frame has the places of layers that were entered.
LEMMA TopSaves ==
    ASSUME Shape, Saves
    PROVE  /\ \A old \in top.saved : /\ old.i \in 1 .. top.i /\ old.i \in Nat
                                     /\ layers[top.mux][old.i] = "SubRouter"
           /\ \A a, b \in top.saved : a.i = b.i => a = b
           /\ top.i \in Nat /\ (top.i = 0 => top.saved = {})
<1>1. top.i \in 0 .. Len(layers[top.mux]) /\ Len(layers[top.mux]) \in Nat
  BY TopFacts, LenProperties DEF Shape, MapTypes
<1> QED BY <1>1, TopIsDeepest DEF Saves

LEMMA SavesKept == ASSUME Shape, mode \in Modes, Saves, Next PROVE Saves'
<1>1. ASSUME NEW f, EnterPlain(f) \/ EnterRouting(f) \/ CallHandler(f) PROVE Saves'
  <2>1. TopStep(f) /\ f.saved = top.saved /\ (f.i = top.i \/ f.i = top.i + 1)
    BY <1>1 DEF EnterPlain, EnterRouting, CallHandler, Plain
  <2> QED BY <2>1, TopSaves, TopStepSaves
<1>2. ASSUME NEW f, EnterStripping(f) PROVE Saves'
  <2>1. /\ TopStep(f) /\ f.i = top.i + 1 /\ layers[top.mux][top.i + 1] = "SubRouter"
        /\ \A old \in f.saved : old \in top.saved \/ old.i = top.i + 1
        /\ \A a, b \in f.saved : a.i = top.i + 1 /\ b.i = top.i + 1 => a = b
    BY <1>2, TopSaves DEF EnterStripping
  <2>2. \A old \in f.saved : old.i \in 1 .. f.i /\ layers[top.mux][old.i] = "SubRouter"
    BY <2>1, TopSaves
  <2>3. \A a, b \in f.saved : a.i = b.i => a = b
    BY <2>1, TopSaves
  <2> QED BY <2>1, <2>2, <2>3, TopStepSaves
<1>3. ASSUME NEW f, LeavePlain(f) PROVE Saves'
  <2>1. /\ TopStep(f) /\ f.saved = top.saved /\ f.i = top.i - 1 /\ top.i > 0
        /\ layers[top.mux][top.i] # "SubRouter"
    BY <1>3 DEF LeavePlain, Plain
  <2>2. \A old \in f.saved : old.i \in 1 .. f.i
    BY <2>1, TopSaves
  <2> QED BY <2>1, <2>2, TopSaves, TopStepSaves
<1>4. ASSUME NEW f, LeaveStripping(f) PROVE Saves'
  <2>1. /\ TopStep(f) /\ f.saved = {old \in top.saved : old.i # top.i} /\ f.i = top.i - 1 /\ top.i > 0
    BY <1>4 DEF LeaveStripping
  <2>2. \A old \in f.saved : old \in top.saved /\ old.i \in 1 .. f.i
    BY <2>1, TopSaves
  <2> QED BY <2>1, <2>2, TopSaves, TopStepSaves
<1>5. ASSUME NEW e, CallMux(e) PROVE Saves'
  <2>1. e.saved = {} /\ frames'[depth + 1] = e /\ depth' = depth + 1
    BY <1>5 DEF CallMux
  <2>2. ASSUME NEW d \in 1 .. depth + 1
        PROVE  /\ \A old \in frames'[d].saved :
                     old.i \in 1 .. frames'[d].i /\ layers'[frames'[d].mux][old.i] = "SubRouter"
               /\ \A a, b \in frames'[d].saved : a.i = b.i => a = b
    <3>1. CASE d = depth + 1
      BY <2>1, <3>1
    <3>2. CASE d # depth + 1
      <4>1. d \in 1 .. depth
        BY <3>2, TopIsDeepest
      <4> QED BY <1>5, <4>1, CallMuxFrames DEF Saves
    <3> QED BY <3>1, <3>2
  <2> QED BY <2>1, <2>2 DEF Saves
<1>6. CASE Pop
  <2>1. /\ depth' = depth - 1 /\ layers' = layers
        /\ \A d \in 1 .. depth - 1 : frames'[d] = frames[d] /\ d \in 1 .. depth
    BY <1>6, TopIsDeepest DEF Pop, config
  <2> QED BY <2>1 DEF Saves
<1>7. CASE Stays
  BY <1>7 DEF Stays, Saves, config, depth
<1> QED BY <1>1, <1>2, <1>3, <1>4, <1>5, <1>6, <1>7, Steps

\* The path of the calls below the top.
LEMMA TopStepPaths ==
    ASSUME Shape, PathKept, NEW f, TopStep(f),
           f.saved = {} => path' = top.called.path,
           \A old \in f.saved :
               (\A other \in f.saved : old.i <= other.i) => old.path = top.called.path
    PROVE  PathKept'
<1>1. /\ depth' = depth /\ frames'[depth] = f /\ f.called = top.called
      /\ \A d \in 1 .. depth - 1 : frames'[d] = frames[d]
      /\ \A d \in 1 .. depth : frames'[d].called = frames[d].called
  BY TopStepFrames DEF Shape, TopStep, Grown
<1>2. ASSUME NEW d \in 1 .. depth
      PROVE  /\ frames'[d].saved = {} => PathAt(d)' = frames'[d].called.path
             /\ \A old \in frames'[d].saved : First(d, old)' => old.path = frames'[d].called.path
  <2>1. CASE d = depth
    <3>1. PathAt(d)' = path'
      BY <1>1, <2>1 DEF PathAt
    <3> QED BY <1>1, <2>1, <3>1 DEF First
  <2>2. CASE d # depth
    <3>1. d \in 1 .. depth - 1 /\ d + 1 \in 1 .. depth
      BY <2>2, TopIsDeepest
    <3>2. PathAt(d)' = PathAt(d)
      BY <1>1, <2>2, <3>1 DEF PathAt
    <3>3. \A old : First(d, old)' <=> First(d, old)
      BY <1>1, <3>1 DEF First
    <3> QED BY <1>1, <3>1, <3>2, <3>3 DEF PathKept
  <2> QED BY <2>1, <2>2
<1> QED BY <1>1, <1>2 DEF PathKept

\* At the top the path is the call's, until something is kept.
LEMMA TopPath ==
    ASSUME Shape, PathKept
    PROVE  /\ top.saved = {} => path = top.called.path
           /\ \A old \in top.saved :
                 (\A other \in top.saved : old.i <= other.i) => old.path = top.called.path
BY TopIsDeepest DEF PathKept, PathAt, First

LEMMA PathsKept == ASSUME Shape, mode \in Modes, Saves, PathKept, Next PROVE PathKept'
<1>1. ASSUME NEW f, EnterPlain(f) \/ EnterRouting(f) \/ CallHandler(f) \/ LeavePlain(f) PROVE PathKept'
  <2>1. TopStep(f) /\ f.saved = top.saved /\ path' = path
    BY <1>1 DEF EnterPlain, EnterRouting, CallHandler, LeavePlain, Plain
  <2> QED BY <2>1, TopPath, TopStepPaths
<1>2. ASSUME NEW f, EnterStripping(f) PROVE PathKept'
  <2> DEFINE new == [i |-> top.i + 1, path |-> path, match |-> MatchOf(top)]
  <2>1. TopStep(f)
    BY <1>2 DEF EnterStripping
  <2>2. CASE f.saved = top.saved /\ path' = path
    BY <2>1, <2>2, TopPath, TopStepPaths
  <2>3. CASE f.saved = top.saved \cup {new}
    <3>1. new.i = top.i + 1 /\ new.path = path
      OBVIOUS
    <3> HIDE DEF new
    <3>2. ASSUME NEW old \in f.saved, \A other \in f.saved : old.i <= other.i
          PROVE  old.path = top.called.path
      <4>1. CASE old \in top.saved
        BY <2>3, <3>2, <4>1, TopPath
      <4>2. CASE old \notin top.saved
        <5>1. old = new
          BY <2>3, <4>2
        <5>2. top.saved = {}
          BY <2>3, <3>1, <3>2, <5>1, TopSaves
        <5> QED BY <3>1, <5>1, <5>2, TopPath
      <4> QED BY <4>1, <4>2
    <3>3. f.saved # {}
      BY <2>3
    <3> QED BY <2>1, <3>2, <3>3, TopStepPaths
  <2> QED BY <1>2, <2>2, <2>3 DEF EnterStripping
<1>3. ASSUME NEW f, LeaveStripping(f) PROVE PathKept'
  <2>1. TopStep(f) /\ f.saved = {old \in top.saved : old.i # top.i}
    BY <1>3 DEF LeaveStripping
  <2>2. CASE (\A old \in top.saved : old.i # top.i) /\ path' = path
    <3>1. f.saved = top.saved
      BY <2>1, <2>2
    <3> QED BY <2>1, <2>2, <3>1, TopPath, TopStepPaths
  <2>3. ASSUME NEW gone \in top.saved, gone.i = top.i, path' = gone.path PROVE PathKept'
    <3>1. ASSUME f.saved = {} PROVE path' = top.called.path
      <4>1. \A other \in top.saved : gone.i <= other.i
        BY <2>1, <2>3, <3>1, TopSaves
      <4> QED BY <2>3, <4>1, TopPath
    <3>2. ASSUME NEW old \in f.saved, \A other \in f.saved : old.i <= other.i
          PROVE  old.path = top.called.path
      <4>1. old \in top.saved /\ \A other \in top.saved : old.i <= other.i
        BY <2>1, <3>2, TopSaves
      <4> QED BY <4>1, TopPath
    <3> QED BY <2>1, <3>1, <3>2, TopStepPaths
  <2> QED BY <1>3, <2>2, <2>3 DEF LeaveStripping
<1>4. ASSUME NEW e, CallMux(e) PROVE PathKept'
  <2>1. /\ e.saved = {} /\ frames'[depth + 1] = e /\ depth' = depth + 1 /\ path' = path
        /\ e.called.path = path
    BY <1>4 DEF CallMux
  <2>2. ASSUME NEW d \in 1 .. depth + 1
        PROVE  /\ frames'[d].saved = {} => PathAt(d)' = frames'[d].called.path
               /\ \A old \in frames'[d].saved : First(d, old)' => old.path = frames'[d].called.path
    <3>1. CASE d = depth + 1
      BY <2>1, <3>1 DEF PathAt
    <3>2. CASE d # depth + 1
      <4>1. d \in 1 .. depth /\ d # depth + 1
        BY <3>2, TopIsDeepest
      <4>2. frames'[d].saved = frames[d].saved /\ frames'[d].called = frames[d].called
        BY <1>4, <4>1, CallMuxFrames
      <4>3. PathAt(d)' = PathAt(d)
        <5>1. CASE d = depth
          BY <2>1, <4>1, <5>1 DEF PathAt
        <5>2. CASE d # depth
          <6>1. d + 1 \in 1 .. depth
            BY <4>1, <5>2, TopIsDeepest
          <6>2. frames'[d + 1].called = frames[d + 1].called
            BY <1>4, <6>1, CallMuxFrames
          <6> QED BY <2>1, <4>1, <5>2, <6>2 DEF PathAt
        <5> QED BY <5>1, <5>2
      <4>4. \A old : First(d, old)' <=> First(d, old)
        BY <4>2 DEF First
      <4> QED BY <4>1, <4>2, <4>3, <4>4 DEF PathKept
    <3> QED BY <3>1, <3>2
  <2> QED BY <2>1, <2>2 DEF PathKept
<1>5. CASE Pop
  <2>1. /\ depth' = depth - 1 /\ path' = path /\ depth > 1
        /\ \A d \in 1 .. depth - 1 : frames'[d] = frames[d] /\ d \in 1 .. depth
    BY <1>5, TopIsDeepest DEF Pop
  <2>2. path = frames[depth].called.path
    BY <1>5, TopSaves, TopPath, TopIsDeepest DEF Pop
  <2>3. ASSUME NEW d \in 1 .. depth - 1
        PROVE  /\ frames'[d].saved = {} => PathAt(d)' = frames'[d].called.path
               /\ \A old \in frames'[d].saved : First(d, old)' => old.path = frames'[d].called.path
    <3>1. PathAt(d)' = PathAt(d)
      BY <2>1, <2>2, TopIsDeepest DEF PathAt
    <3>2. \A old : First(d, old)' <=> First(d, old)
      BY <2>1 DEF First
    <3> QED BY <2>1, <3>1, <3>2 DEF PathKept
  <2> QED BY <2>1, <2>3 DEF PathKept
<1>6. CASE Stays
  BY <1>6 DEF Stays, PathKept, PathAt, First, config, depth
<1> QED BY <1>1, <1>2, <1>3, <1>4, <1>5, <1>6, Steps

\* Who was called has been mounted.
LEMMA MountsKept == ASSUME Shape, mode \in Modes, Mounted, Next PROVE Mounted'
<1>1. ASSUME NEW f, TopStep(f) PROVE Mounted'
  <2>1. depth' = depth /\ \A d \in 1 .. depth : /\ frames'[d].mux = frames[d].mux
                                                /\ frames'[d].called = frames[d].called
    BY <1>1, TopStepFrames DEF Shape
  <2>2. \A d \in 2 .. depth : d \in 1 .. depth
    BY TopIsDeepest
  <2> QED BY <2>1, <2>2 DEF Mounted
<1>2. ASSUME NEW e, CallMux(e) PROVE Mounted'
  <2>1. ASSUME NEW d \in 2 .. depth + 1
        PROVE  \E r \in Mounts : frames'[d].mux = r.handler /\ frames'[d].called.tail = r.tail
    <3>1. CASE d = depth + 1
      BY <1>2, <3>1 DEF CallMux
    <3>2. CASE d # depth + 1
      <4>1. d \in 1 .. depth /\ d \in 2 .. depth
        BY <3>2, TopIsDeepest
      <4> QED BY <1>2, <4>1, CallMuxFrames DEF Mounted
    <3> QED BY <3>1, <3>2
  <2> QED BY <1>2, <2>1, CallMuxFrames DEF Mounted
<1>3. CASE Pop
  <2>1. depth' = depth - 1 /\ \A d \in 2 .. depth - 1 : frames'[d] = frames[d] /\ d \in 2 .. depth
    BY <1>3, TopIsDeepest DEF Pop
  <2> QED BY <2>1 DEF Mounted
<1>4. CASE Stays
  BY <1>4 DEF Stays, Mounted, depth
<1> QED BY <1>1, <1>2, <1>3, <1>4, Steps
        DEF EnterPlain, EnterRouting, EnterStripping, CallHandler, LeavePlain, LeaveStripping, Plain

\* Who had no Env called with no match.
LEMMA NoneIsCalled == ASSUME Shape, mode \in Modes, NoneCalled, Next PROVE NoneCalled'
<1>1. ASSUME NEW f, TopStep(f) PROVE NoneCalled'
  <2>1. /\ depth' = depth /\ \A d \in 1 .. depth - 1 : frames'[d] = frames[d]
        /\ \A d \in 1 .. depth : frames'[d].called = frames[d].called
    BY <1>1, TopStepFrames DEF Shape
  <2>2. \A d \in 2 .. depth : d \in 1 .. depth /\ d - 1 \in 1 .. depth - 1
    BY TopIsDeepest
  <2> QED BY <2>1, <2>2 DEF NoneCalled
<1>2. ASSUME NEW e, CallMux(e) PROVE NoneCalled'
  <2>1. ASSUME NEW d \in 2 .. depth + 1, frames'[d - 1].env = 0
        PROVE  frames'[d].called.match = NoMatch
    <3>1. CASE d = depth + 1
      <4>1. d - 1 = depth
        BY <3>1, TopIsDeepest
      <4> QED BY <1>2, <2>1, <3>1, <4>1 DEF CallMux
    <3>2. CASE d # depth + 1
      <4>1. d \in 1 .. depth /\ d \in 2 .. depth /\ d - 1 \in 1 .. depth /\ d - 1 < depth
        BY <3>2, TopIsDeepest
      <4>2. frames'[d - 1] = frames[d - 1] /\ frames'[d].called = frames[d].called
        BY <1>2, <4>1, CallMuxFrames
      <4> QED BY <2>1, <4>1, <4>2 DEF NoneCalled
    <3> QED BY <3>1, <3>2
  <2> QED BY <1>2, <2>1, CallMuxFrames DEF NoneCalled
<1>3. CASE Pop
  <2>1. depth' = depth - 1 /\ \A d \in 2 .. depth - 1 : /\ frames'[d] = frames[d] /\ d \in 2 .. depth
                                                        /\ frames'[d - 1] = frames[d - 1]
    BY <1>3, TopIsDeepest DEF Pop
  <2> QED BY <2>1 DEF NoneCalled
<1>4. CASE Stays
  BY <1>4 DEF Stays, NoneCalled, depth
<1> QED BY <1>1, <1>2, <1>3, <1>4, Steps
        DEF EnterPlain, EnterRouting, EnterStripping, CallHandler, LeavePlain, LeaveStripping, Plain

\* What is bound stays bound; a route taken binds what it leaves.
LEMMA BoundFacts ==
    ASSUME Shape
    PROVE  /\ \A d \in 1 .. MaxDepth :
                 /\ params[d].star # NoPath => BoundParams[d].star # NoPath
                 /\ params[d].under # NoPath => BoundParams[d].under # NoPath
           /\ Chosen(top.mux).tail # "exact" => Routed.params # 0
           /\ Chosen(top.mux).tail = "*" =>
                 BoundParams[Routed.params].star = Rest(Chosen(top.mux))
           /\ Chosen(top.mux).tail = "_" =>
                 BoundParams[Routed.params].under = Rest(Chosen(top.mux))
           /\ Chosen(top.mux).tail # "*" => \A d \in 1 .. MaxDepth : BoundParams[d].star = params[d].star
           /\ Rest(Chosen(top.mux)) # NoPath
<1> DEFINE b == Binds(top.mux)
           r == Chosen(top.mux)
           n == Routed.params
<1>1. /\ b.star = IF r.tail = "*" THEN Rest(r) ELSE NoPath
      /\ r.tail = "_" => b.under = Rest(r)
      /\ Rest(r) \in Paths /\ r.tail \in Tails
  BY TopFacts, BindsFacts, ChosenFacts DEF Shape, MapTypes
<1>2. Rest(r) # NoPath
  BY <1>1, NoPathIsNone
<1>3. r.tail # "exact" => b # EmptyParams
  <2>1. EmptyParams.star = NoPath /\ EmptyParams.under = NoPath
    BY DEF EmptyParams
  <2> HIDE DEF b, r
  <2> QED BY <1>1, <1>2, <2>1 DEF Tails
<1>4. /\ \A d \in 1 .. MaxDepth : d # n => BoundParams[d] = params[d]
      /\ n = 0 => b = EmptyParams
      /\ n # 0 => BoundParams[n] = Rebind(params[n], b)
  BY GetMatchFacts DEF Shape
<1>5. n # 0 => /\ BoundParams[n].star = (IF b.star = NoPath THEN params[n].star ELSE b.star)
               /\ BoundParams[n].under = (IF b.under = NoPath THEN params[n].under ELSE b.under)
  BY <1>4 DEF Rebind, Rebound
<1>6. n # 0 \/ \A d \in 1 .. MaxDepth : BoundParams[d] = params[d]
  BY <1>4
<1> HIDE DEF b, r, n
<1>7. \A d \in 1 .. MaxDepth :
         /\ params[d].star # NoPath => BoundParams[d].star # NoPath
         /\ params[d].under # NoPath => BoundParams[d].under # NoPath
         /\ r.tail # "*" => BoundParams[d].star = params[d].star
  BY <1>1, <1>4, <1>5, <1>6
<1>8. r.tail # "exact" => n # 0
  BY <1>3, <1>4
<1>9. /\ r.tail = "*" => BoundParams[n].star = Rest(r)
      /\ r.tail = "_" => BoundParams[n].under = Rest(r)
  BY <1>1, <1>2, <1>5, <1>8
<1> QED BY <1>2, <1>7, <1>8, <1>9 DEF n, r

\* Who has a suffix keeps one while what is bound stays bound.
Growing ==
    \A d \in 1 .. MaxDepth : /\ params[d].star # NoPath => params'[d].star # NoPath
                             /\ params[d].under # NoPath => params'[d].under # NoPath

LEMMA SuffixesStay ==
    ASSUME Growing, NEW g, NEW h, HasSuffix(params, g), g.params \in 0 .. MaxDepth, h.params = g.params
    PROVE  HasSuffix(params', h)
<1>1. MaxDepth \in Nat
  BY RequestAssumption
<1>2. h.params \in 1 .. MaxDepth
  BY <1>1 DEF HasSuffix
<1> QED BY <1>2 DEF HasSuffix, Growing

LEMMA TopStepSuffixes ==
    ASSUME Shape, Suffixed, SuffixFound, NEW f, TopStep(f), Growing,
           mode' = "down" /\ MatchOf(f)' \in Mounts => HasSuffix(params', f),
           depth > 1 => \A j \in 1 .. f.i :
                           layers[top.mux][j] = "SubRouter" => \E old \in f.saved : old.i = j
    PROVE  SuffixFound'
<1>1. /\ depth' = depth /\ frames'[depth] = f /\ top' = f /\ layers' = layers /\ f.mux = top.mux
      /\ \A d \in 1 .. depth - 1 : frames'[d] = frames[d]
      /\ \A d \in 1 .. depth : frames[d].params # 0 => frames'[d].params = frames[d].params
  BY TopStepFrames DEF Shape, TopStep, Grown
<1>2. \A d \in 2 .. depth : HasSuffix(params', frames'[d])
  <2> TAKE d \in 2 .. depth
  <2>1. d \in 1 .. depth /\ HasSuffix(params, frames[d])
    BY TopIsDeepest DEF SuffixFound
  <2>2. frames[d].params \in 0 .. MaxDepth
    BY <2>1, TopFacts DEF Shape, FrameTypes
  <2>3. frames'[d].params = frames[d].params
    BY <1>1, <2>1 DEF HasSuffix
  <2> QED BY <2>1, <2>2, <2>3, SuffixesStay
<1>3. mode' = "down" /\ MatchOf(top)' \in Mounts => HasSuffix(params', top')
  BY <1>1 DEF MatchOf
<1>4. \A d \in 2 .. depth : \A j \in 1 .. frames'[d].i :
         layers'[frames'[d].mux][j] = "SubRouter" => \E old \in frames'[d].saved : old.i = j
  <2> TAKE d \in 2 .. depth
  <2>1. CASE d = depth
    BY <1>1, <2>1, TopIsDeepest
  <2>2. CASE d # depth
    <3>1. frames'[d] = frames[d]
      BY <1>1, <2>2, TopIsDeepest
    <3> QED BY <1>1, <3>1 DEF SuffixFound
  <2> QED BY <2>1, <2>2
<1> QED BY <1>1, <1>2, <1>3, <1>4 DEF SuffixFound

\* A mux that makes itself an Env finds no match in it.
LEMMA SameMatch ==
    ASSUME Shape, NEW f, Grown(f), \A d \in 1 .. MaxDepth : envs'[d].match = envs[d].match
    PROVE  MatchOf(f)' = MatchOf(top)
<1>1. /\ depth \in 1 .. MaxDepth /\ top.env \in 0 .. depth /\ MaxDepth \in Nat /\ depth \in Nat
      /\ top.env = 0 => envs[depth] = EmptyEnv
  BY TopFacts DEF Shape
<1>2. EmptyEnv.match = NoMatch
  BY DEF EmptyEnv
<1>3. f.env = top.env \/ (top.env = 0 /\ f.env = depth)
  BY DEF Grown
<1> QED BY <1>1, <1>2, <1>3 DEF MatchOf

\* What the muxes that are called need to find a suffix.
LEMMA TopSuffix ==
    ASSUME Shape, Suffixed, SuffixFound
    PROVE  /\ mode = "down" /\ MatchOf(top) \in Mounts => HasSuffix(params, top)
           /\ depth > 1 => /\ HasSuffix(params, top) /\ Suffix(top) # NoPath
                           /\ \A j \in 1 .. top.i :
                                 layers[top.mux][j] = "SubRouter" => \E old \in top.saved : old.i = j
<1>1. top = frames[depth] /\ (depth > 1 => depth \in 2 .. depth)
  BY TopIsDeepest
<1>2. HasSuffix(params, top) => Suffix(top) # NoPath
  BY DEF HasSuffix, Suffix
<1> QED BY <1>1, <1>2 DEF SuffixFound

\* While the mux on top keeps its suffix, so do its callees.
LEMMA GrownSuffix ==
    ASSUME Shape, NEW f, Grown(f), Growing, HasSuffix(params, top)
    PROVE  HasSuffix(params', f)
<1>1. top.params \in 0 .. MaxDepth /\ f.params = top.params
  BY TopFacts DEF Shape, Grown, HasSuffix
<1> QED BY <1>1, SuffixesStay

LEMMA SuffixesKept == ASSUME Shape, mode \in Modes, SuffixFound, Next PROVE SuffixFound'
<1> SUFFICES ASSUME Suffixed PROVE SuffixFound'
  BY DEF SuffixFound
<1>0. top.i \in Nat
  <2>1. top.i \in 0 .. Len(layers[top.mux]) /\ Len(layers[top.mux]) \in Nat
    BY TopFacts, LenProperties DEF Shape, MapTypes
  <2> QED BY <2>1
<1>1. ASSUME NEW f, EnterPlain(f) PROVE SuffixFound'
  <2>1. /\ TopStep(f) /\ Grown(f) /\ f.i = top.i + 1 /\ f.saved = top.saved /\ params' = params /\ envs' = envs
        /\ layers[top.mux][top.i + 1] # "SubRouter" /\ mode = "down"
    BY <1>1 DEF EnterPlain, Plain, TopStep, maps
  <2>2. Growing
    BY <2>1 DEF Growing
  <2>3. MatchOf(f)' = MatchOf(top)
    BY <2>1, SameMatch
  <2>4. MatchOf(f)' \in Mounts => HasSuffix(params', f)
    BY <2>1, <2>2, <2>3, TopSuffix, GrownSuffix
  <2>5. \A j \in 1 .. f.i : layers[top.mux][j] = "SubRouter" => j \in 1 .. top.i
    BY <1>0, <2>1
  <2> QED BY <2>1, <2>2, <2>4, <2>5, TopSuffix, TopStepSuffixes
<1>2. ASSUME NEW f, EnterRouting(f) PROVE SuffixFound'
  <2>1. /\ TopStep(f) /\ f.i = top.i + 1 /\ f.saved = top.saved
        /\ layers[top.mux][top.i + 1] # "SubRouter"
        /\ f.params = Routed.params /\ params' = BoundParams /\ f.env # 0
        /\ envs'[f.env].match = Chosen(top.mux)
    BY <1>2 DEF EnterRouting, Plain
  <2>2. Growing
    BY <2>1, BoundFacts DEF Growing
  <2>3. MatchOf(f)' = Chosen(top.mux)
    BY <2>1 DEF MatchOf
  <2>4. ASSUME Chosen(top.mux) \in Mounts PROVE HasSuffix(params', f)
    <3>1. Chosen(top.mux).tail \in {"*", "_"}
      BY <2>4, MountFacts, RouteFacts DEF Suffixed, Tails
    <3> QED BY <2>1, <3>1, BoundFacts DEF HasSuffix
  <2>5. \A j \in 1 .. f.i : layers[top.mux][j] = "SubRouter" => j \in 1 .. top.i
    BY <1>0, <2>1
  <2> QED BY <2>1, <2>2, <2>3, <2>4, <2>5, TopSuffix, TopStepSuffixes
<1>3. ASSUME NEW f, EnterStripping(f) PROVE SuffixFound'
  <2> DEFINE new == [i |-> top.i + 1, path |-> path, match |-> MatchOf(top)]
  <2>1. /\ TopStep(f) /\ f.i = top.i + 1 /\ params' = params /\ mode = "down" /\ Grown(f)
        /\ f.env = top.env
    BY <1>3 DEF EnterStripping, SameMaps, TopStep
  <2>2. Growing
    BY <2>1 DEF Growing
  <2>3. MatchOf(f)' \in Mounts => HasSuffix(params', f)
    <3>1. CASE envs' = envs
      <4>1. MatchOf(f)' = MatchOf(top)
        BY <2>1, <3>1, SameMatch
      <4> QED BY <2>1, <2>2, <4>1, TopSuffix, GrownSuffix
    <3>2. CASE Matching(NoMatch)
      <4>1. MatchOf(f)' = NoMatch
        BY <2>1, <3>2 DEF MatchOf, Matching
      <4> QED BY <4>1, MountFacts
    <3> QED BY <1>3, <3>1, <3>2 DEF EnterStripping
  <2>4. ASSUME depth > 1, NEW j \in 1 .. f.i, layers[top.mux][j] = "SubRouter"
        PROVE  \E old \in f.saved : old.i = j
    <3>1. f.saved = top.saved \cup {new} /\ new.i = top.i + 1
      BY <1>3, <2>4, TopSuffix DEF EnterStripping
    <3>2. CASE j = top.i + 1
      BY <3>1, <3>2
    <3>3. CASE j # top.i + 1
      <4>1. j \in 1 .. top.i
        BY <1>0, <2>1, <3>3
      <4> QED BY <2>4, <3>1, <4>1, TopSuffix
    <3> QED BY <3>2, <3>3
  <2> QED BY <2>1, <2>2, <2>3, <2>4, TopStepSuffixes
<1>4. ASSUME CallHandler(Found.frame) PROVE SuffixFound'
  <2>1. /\ TopStep(Found.frame) /\ Found.frame.i = top.i /\ Found.frame.saved = top.saved
        /\ params' = Found.params /\ mode' # "down"
    BY <1>4 DEF CallHandler, Plain
  <2>2. Growing
    <3>1. Found.params = params \/ Found.params = BoundParams
      BY FoundFacts
    <3> QED BY <2>1, <3>1, BoundFacts DEF Growing
  <2> QED BY <2>1, <2>2, TopSuffix, TopStepSuffixes
<1>5. ASSUME NEW f, LeavePlain(f) PROVE SuffixFound'
  <2>1. /\ TopStep(f) /\ f.i = top.i - 1 /\ f.saved = top.saved /\ params' = params /\ mode' # "down"
    BY <1>5 DEF LeavePlain, Plain, SameMaps
  <2>2. Growing
    BY <2>1 DEF Growing
  <2>3. \A j \in 1 .. f.i : j \in 1 .. top.i
    BY <1>0, <2>1
  <2> QED BY <2>1, <2>2, <2>3, TopSuffix, TopStepSuffixes
<1>6. ASSUME NEW f, LeaveStripping(f) PROVE SuffixFound'
  <2>1. /\ TopStep(f) /\ f.i = top.i - 1 /\ params' = params /\ mode' # "down"
        /\ f.saved = {old \in top.saved : old.i # top.i}
    BY <1>6 DEF LeaveStripping, SameMaps
  <2>2. Growing
    BY <2>1 DEF Growing
  <2>3. \A j \in 1 .. f.i : j \in 1 .. top.i /\ j # top.i
    BY <1>0, <2>1
  <2> QED BY <2>1, <2>2, <2>3, TopSuffix, TopStepSuffixes
<1>7. ASSUME NEW e, CallMux(e) PROVE SuffixFound'
  <2>1. /\ e.i = 0 /\ e.env = Found.frame.env /\ e.params = Found.frame.params
        /\ depth' = depth + 1 /\ frames'[depth + 1] = e /\ top' = e /\ Found.match \in Mounts
        /\ mode = "down"
    BY <1>7 DEF CallMux
  <2>2. depth \in 1 .. MaxDepth /\ depth \in Nat /\ MaxDepth \in Nat
    BY TopFacts DEF Shape
  <2>3. \A d \in 1 .. depth :
           /\ params[d].star # NoPath => params'[d].star # NoPath
           /\ params[d].under # NoPath => params'[d].under # NoPath
    <3>1. Found.params = params \/ Found.params = BoundParams
      BY FoundFacts
    <3>2. \A d \in 1 .. depth : d \in 1 .. MaxDepth /\ params'[d] = Found.params[d]
      BY <1>7, <2>2 DEF CallMux
    <3> QED BY <3>1, <3>2, BoundFacts
  <2>4. ASSUME NEW g, NEW h, HasSuffix(params, g), g.params \in 0 .. depth, h.params = g.params
        PROVE  HasSuffix(params', h)
    <3>1. g.params \in 1 .. depth
      BY <2>2, <2>4 DEF HasSuffix
    <3> QED BY <2>3, <2>4, <3>1 DEF HasSuffix
  <2>5. HasSuffix(params', e)
    <3>1. CASE HasSuffix(params, top)
      <4>1. top.params \in 0 .. depth /\ e.params = top.params
        BY <1>7, <3>1, CallMuxFrames, TopFacts DEF Shape, HasSuffix
      <4> QED BY <2>4, <3>1, <4>1
    <3>2. CASE ~HasSuffix(params, top)
      <4>1. MatchOf(top) = NoMatch
        BY <2>1, <3>2, TopSuffix, FoundFacts
      <4>2. /\ Chosen(top.mux) \in Mounts /\ e.params = Routed.params /\ Found.params = BoundParams
        BY <2>1, <4>1, FoundFacts
      <4>3. Chosen(top.mux).tail \in {"*", "_"}
        BY <4>2, MountFacts, RouteFacts DEF Suffixed, Tails
      <4>4. HasSuffix(BoundParams, e)
        BY <4>2, <4>3, BoundFacts DEF HasSuffix
      <4>5. e.params \in 0 .. depth
        BY <1>7, CallMuxFrames
      <4>6. e.params \in 1 .. MaxDepth /\ e.params # depth + 1
        BY <2>2, <4>4, <4>5 DEF HasSuffix
      <4>7. params'[e.params] = BoundParams[e.params]
        BY <1>7, <4>2, <4>6 DEF CallMux
      <4> QED BY <4>4, <4>7 DEF HasSuffix
    <3> QED BY <3>1, <3>2
  <2>6. ASSUME NEW d \in 2 .. depth + 1
        PROVE  /\ HasSuffix(params', frames'[d])
               /\ \A j \in 1 .. frames'[d].i : layers'[frames'[d].mux][j] = "SubRouter" =>
                     \E old \in frames'[d].saved : old.i = j
    <3>1. CASE d = depth + 1
      BY <2>1, <2>5, <3>1
    <3>2. CASE d # depth + 1
      <4>1. d \in 1 .. depth /\ d \in 2 .. depth
        BY <2>2, <3>2
      <4>2. HasSuffix(params, frames[d])
        BY <4>1 DEF SuffixFound
      <4>3. frames[d].params \in 0 .. depth /\ frames'[d].params = frames[d].params
        BY <1>7, <2>2, <4>1, <4>2, CallMuxFrames DEF Shape, FrameTypes, HasSuffix
      <4>4. HasSuffix(params', frames'[d])
        BY <2>4, <4>2, <4>3
      <4>5. /\ layers' = layers /\ frames'[d].mux = frames[d].mux
            /\ frames'[d].i = frames[d].i /\ frames'[d].saved = frames[d].saved
        BY <1>7, <4>1, CallMuxFrames
      <4> QED BY <4>1, <4>4, <4>5 DEF SuffixFound
    <3> QED BY <3>1, <3>2
  <2> QED BY <2>1, <2>5, <2>6 DEF SuffixFound
<1>8. CASE Pop
  <2>1. /\ depth' = depth - 1 /\ layers' = layers /\ params' = params /\ mode' # "down"
        /\ \A d \in 2 .. depth - 1 : frames'[d] = frames[d] /\ d \in 2 .. depth
    BY <1>8, TopIsDeepest DEF Pop, config, maps
  <2> QED BY <2>1 DEF SuffixFound
<1>9. CASE Stays
  BY <1>9 DEF Stays, SuffixFound, HasSuffix, config, maps, depth
<1> QED BY <1>1, <1>2, <1>3, <1>4, <1>5, <1>6, <1>7, <1>8, <1>9, Steps

\* The matches of the calls below the top.
LEMMA TopStepMatches ==
    ASSUME Shape, Shielded, MatchKept, NEW f, TopStep(f),
           depth > 1 => /\ f.saved = {} => MatchOf(f)' = top.called.match
                        /\ \A old \in f.saved :
                              (\A other \in f.saved : old.i <= other.i) => old.match = top.called.match
    PROVE  MatchKept'
<1>1. /\ depth' = depth /\ frames'[depth] = f /\ top' = f /\ f.called = top.called
      /\ \A d \in 1 .. depth - 1 : frames'[d] = frames[d]
      /\ \A d \in 1 .. depth : frames'[d].called = frames[d].called
  BY TopStepFrames DEF Shape, TopStep, Grown
<1>2. ASSUME NEW d \in 2 .. depth
      PROVE  /\ frames'[d].saved = {} => MatchAt(d)' = frames'[d].called.match
             /\ \A old \in frames'[d].saved : First(d, old)' => old.match = frames'[d].called.match
  <2>1. CASE d = depth
    <3>1. MatchAt(d)' = MatchOf(f)'
      BY <1>1, <2>1 DEF MatchAt, MatchOf
    <3>2. depth > 1
      BY <2>1, TopIsDeepest
    <3> QED BY <1>1, <2>1, <3>1, <3>2 DEF First
  <2>2. CASE d # depth
    <3>1. d \in 1 .. depth - 1 /\ d + 1 \in 1 .. depth
      BY <2>2, TopIsDeepest
    <3>2. MatchAt(d)' = MatchAt(d)
      BY <1>1, <2>2, <3>1 DEF MatchAt
    <3>3. \A old : First(d, old)' <=> First(d, old)
      BY <1>1, <3>1 DEF First
    <3> QED BY <1>1, <3>1, <3>2, <3>3 DEF MatchKept
  <2> QED BY <2>1, <2>2
<1> QED BY <1>1, <1>2 DEF MatchKept

\* At the top the match is the call's, until something is kept.
LEMMA TopMatch ==
    ASSUME Shape, Shielded, MatchKept, depth > 1
    PROVE  /\ top.saved = {} => MatchOf(top) = top.called.match
           /\ \A old \in top.saved :
                 (\A other \in top.saved : old.i <= other.i) => old.match = top.called.match
<1>1. depth \in 2 .. depth /\ top = frames[depth]
  BY TopIsDeepest
<1> QED BY <1>1 DEF MatchKept, MatchAt, First

\* Who routes by a Router after its SubRouter has kept something.
LEMMA ShieldedKeeps ==
    ASSUME Shape, Mounted, Shielded, SuffixFound, depth > 1, top.i < Len(layers[top.mux]),
           layers[top.mux][top.i + 1] = "Router"
    PROVE  top.saved # {}
<1>1. depth \in 2 .. depth /\ top = frames[depth]
  BY TopIsDeepest
<1>2. PICK r \in Mounts : top.mux = r.handler
  BY <1>1 DEF Mounted
<1>3. Precedes(top.mux, "SubRouter", "Router") /\ Suffixed
  BY <1>2 DEF Shielded
<1>4. /\ top.i \in 0 .. Len(layers[top.mux]) /\ Len(layers[top.mux]) \in Nat
      /\ layers[top.mux] \in Seq(Layers)
  BY TopFacts, LenProperties DEF Shape, MapTypes
<1>5. top.i + 1 \in DOMAIN layers[top.mux] /\ (top.i + 1) - 1 = top.i
  BY <1>4, LenProperties
<1>6. \E j \in 1 .. top.i : layers[top.mux][j] = "SubRouter"
  BY <1>3, <1>5 DEF Precedes
<1> QED BY <1>3, <1>6, TopSuffix

\* A mux that is left leaves path and match as it was called with.
LEMMA PopRestores ==
    ASSUME Shape, Saves, PathKept, NoneCalled, MatchKept, Pop
    PROVE  path' = top.called.path /\ (Shielded => MatchOf(top)' = top.called.match)
<1>1. depth > 1 /\ top' = frames[depth - 1] /\ envs' = envs /\ path' = path /\ top.saved = {}
  BY TopSaves DEF Pop, maps
<1>2. path = top.called.path
  BY <1>1, TopPath
<1>3. Shielded => MatchOf(top) = top.called.match
  BY <1>1, TopMatch
<1>4. depth \in 2 .. depth /\ depth - 1 \in 1 .. depth /\ depth \in 1 .. depth
      /\ depth - 1 <= depth /\ top = frames[depth]
  BY <1>1, TopIsDeepest
<1>5. frames[depth - 1].env = 0 => top.called.match = NoMatch
  BY <1>4 DEF NoneCalled
<1>6. frames[depth - 1].env # 0 => top.env = frames[depth - 1].env
  BY <1>4 DEF Shape, Shared
<1> QED BY <1>1, <1>2, <1>3, <1>5, <1>6 DEF MatchOf

LEMMA MatchesKept ==
    ASSUME Shape, mode \in Modes, Saves, PathKept, Mounted, NoneCalled, SuffixFound, MatchKept, Next
    PROVE  MatchKept'
<1>0. layers' = layers
  <2>1. \A f : TopStep(f) => layers' = layers
    BY DEF TopStep, config
  <2> QED BY <2>1, Steps DEF EnterPlain, EnterRouting, EnterStripping, CallHandler, CallMux,
                             LeavePlain, LeaveStripping, Pop, Stays, Plain, config
<1> SUFFICES ASSUME Shielded PROVE MatchKept'
  BY <1>0 DEF MatchKept, Shielded, Precedes
<1>1. ASSUME NEW f, EnterPlain(f) \/ CallHandler(f) \/ LeavePlain(f) PROVE MatchKept'
  <2>1. TopStep(f) /\ Grown(f) /\ f.saved = top.saved
    BY <1>1 DEF EnterPlain, CallHandler, LeavePlain, Plain, TopStep
  <2>2. \A d \in 1 .. MaxDepth : envs'[d].match = envs[d].match
    BY <1>1, FoundFacts DEF EnterPlain, CallHandler, LeavePlain, maps
  <2>3. MatchOf(f)' = MatchOf(top)
    BY <2>1, <2>2, SameMatch
  <2> QED BY <2>1, <2>3, TopMatch, TopStepMatches
<1>2. ASSUME NEW f, EnterRouting(f) PROVE MatchKept'
  <2>1. /\ TopStep(f) /\ f.saved = top.saved /\ top.i < Len(layers[top.mux])
        /\ layers[top.mux][top.i + 1] = "Router"
    BY <1>2 DEF EnterRouting, Plain
  <2>2. depth > 1 => f.saved # {}
    BY <2>1, ShieldedKeeps
  <2> QED BY <2>1, <2>2, TopMatch, TopStepMatches
<1>3. ASSUME NEW f, EnterStripping(f) PROVE MatchKept'
  <2> DEFINE new == [i |-> top.i + 1, path |-> path, match |-> MatchOf(top)]
  <2>1. TopStep(f) /\ Grown(f)
    BY <1>3 DEF EnterStripping, TopStep
  <2>2. CASE f.saved = top.saved /\ envs' = envs
    <3>1. MatchOf(f)' = MatchOf(top)
      BY <2>1, <2>2, SameMatch
    <3> QED BY <2>1, <2>2, <3>1, TopMatch, TopStepMatches
  <2>3. CASE f.saved = top.saved \cup {new}
    <3>1. new.i = top.i + 1 /\ new.match = MatchOf(top)
      OBVIOUS
    <3> HIDE DEF new
    <3>2. ASSUME depth > 1, NEW old \in f.saved, \A other \in f.saved : old.i <= other.i
          PROVE  old.match = top.called.match
      <4>1. CASE old \in top.saved
        BY <2>3, <3>2, <4>1, TopMatch
      <4>2. CASE old \notin top.saved
        <5>1. old = new
          BY <2>3, <4>2
        <5>2. top.saved = {}
          BY <2>3, <3>1, <3>2, <5>1, TopSaves
        <5> QED BY <3>1, <3>2, <5>1, <5>2, TopMatch
      <4> QED BY <4>1, <4>2
    <3>3. f.saved # {}
      BY <2>3
    <3> QED BY <2>1, <3>2, <3>3, TopStepMatches
  <2> QED BY <1>3, <2>2, <2>3 DEF EnterStripping
<1>4. ASSUME NEW f, LeaveStripping(f) PROVE MatchKept'
  <2>1. /\ TopStep(f) /\ Grown(f) /\ f.saved = {old \in top.saved : old.i # top.i} /\ f.env = top.env
    BY <1>4 DEF LeaveStripping, TopStep, SameMaps
  <2>2. CASE (\A old \in top.saved : old.i # top.i) /\ envs' = envs
    <3>1. f.saved = top.saved
      BY <2>1, <2>2
    <3>2. MatchOf(f)' = MatchOf(top)
      BY <2>1, <2>2, SameMatch
    <3> QED BY <2>1, <3>1, <3>2, TopMatch, TopStepMatches
  <2>3. ASSUME NEW gone \in top.saved, gone.i = top.i, Matching(gone.match) PROVE MatchKept'
    <3>1. ASSUME depth > 1, f.saved = {} PROVE MatchOf(f)' = top.called.match
      <4>1. \A other \in top.saved : gone.i <= other.i
        BY <2>1, <2>3, <3>1, TopSaves
      <4>2. gone.match = top.called.match
        BY <2>3, <3>1, <4>1, TopMatch
      <4>3. CASE top.env # 0
        BY <2>1, <2>3, <4>2, <4>3 DEF Matching, MatchOf
      <4>4. CASE top.env = 0
        <5>1. depth \in 2 .. depth /\ depth - 1 \in 1 .. depth /\ depth \in 1 .. depth
              /\ depth - 1 <= depth /\ top = frames[depth]
          BY <3>1, TopIsDeepest
        <5>2. frames[depth - 1].env = 0
          BY <4>4, <5>1 DEF Shape, Shared
        <5>3. top.called.match = NoMatch
          BY <5>1, <5>2 DEF NoneCalled
        <5> QED BY <2>1, <4>4, <5>3 DEF MatchOf
      <4> QED BY <4>3, <4>4
    <3>2. ASSUME depth > 1, NEW old \in f.saved, \A other \in f.saved : old.i <= other.i
          PROVE  old.match = top.called.match
      <4>1. old \in top.saved /\ \A other \in top.saved : old.i <= other.i
        BY <2>1, <3>2, TopSaves
      <4> QED BY <3>2, <4>1, TopMatch
    <3> QED BY <2>1, <3>1, <3>2, TopStepMatches
  <2> QED BY <1>4, <2>2, <2>3 DEF LeaveStripping
<1>5. ASSUME NEW e, CallMux(e) PROVE MatchKept'
  <2>1. /\ e.saved = {} /\ frames'[depth + 1] = e /\ depth' = depth + 1 /\ top' = e
        /\ e.env = Found.frame.env
        /\ e.called.match = IF e.env = 0 THEN NoMatch ELSE Found.envs[e.env].match
    BY <1>5 DEF CallMux
  <2>2. /\ depth \in 1 .. MaxDepth /\ depth \in Nat /\ MaxDepth \in Nat /\ e.env \in 0 .. depth
    BY <1>5, CallMuxFrames, TopFacts DEF Shape
  <2>3. e.env # 0 => envs'[e.env] = Found.envs[e.env]
    <3>1. e.env # 0 => e.env \in 1 .. MaxDepth /\ e.env # depth + 1
      BY <2>2
    <3> QED BY <1>5, <3>1 DEF CallMux
  <2>4. MatchOf(top)' = e.called.match
    BY <2>1, <2>3 DEF MatchOf
  <2>5. e.called.match = MatchOf(top)
    <3>1. e.env = top.env \/ (top.env = 0 /\ e.env = depth)
      BY <1>5, CallMuxFrames
    <3>2. top.env = 0 => envs[depth].match = NoMatch
      BY TopFacts DEF Shape, EmptyEnv
    <3>3. \A d \in 1 .. MaxDepth : Found.envs[d].match = envs[d].match
      BY FoundFacts
    <3>4. e.env # 0 => e.env \in 1 .. MaxDepth
      BY <2>2
    <3> QED BY <2>1, <3>1, <3>2, <3>3, <3>4 DEF MatchOf
  <2>6. ASSUME NEW d \in 2 .. depth + 1
        PROVE  /\ frames'[d].saved = {} => MatchAt(d)' = frames'[d].called.match
               /\ \A old \in frames'[d].saved : First(d, old)' => old.match = frames'[d].called.match
    <3>1. CASE d = depth + 1
      BY <2>1, <2>4, <3>1 DEF MatchAt
    <3>2. CASE d # depth + 1
      <4>1. d \in 1 .. depth /\ d \in 2 .. depth
        BY <2>2, <3>2
      <4>2. frames'[d].saved = frames[d].saved /\ frames'[d].called = frames[d].called
        BY <1>5, <4>1, CallMuxFrames
      <4>3. MatchAt(d)' = MatchAt(d)
        <5>1. CASE d = depth
          BY <2>1, <2>2, <2>5, <5>1 DEF MatchAt
        <5>2. CASE d # depth
          <6>1. d + 1 \in 1 .. depth /\ d # depth + 1
            BY <2>2, <4>1, <5>2
          <6>2. frames'[d + 1].called = frames[d + 1].called
            BY <1>5, <6>1, CallMuxFrames
          <6> QED BY <2>1, <5>2, <6>1, <6>2 DEF MatchAt
        <5> QED BY <5>1, <5>2
      <4>4. \A old : First(d, old)' <=> First(d, old)
        BY <4>2 DEF First
      <4> QED BY <4>1, <4>2, <4>3, <4>4 DEF MatchKept
    <3> QED BY <3>1, <3>2
  <2> QED BY <2>1, <2>6 DEF MatchKept
<1>6. CASE Pop
  <2>1. /\ depth' = depth - 1 /\ depth > 1 /\ top' = frames[depth - 1] /\ envs' = envs
        /\ \A d \in 1 .. depth - 1 : frames'[d] = frames[d]
        /\ \A d \in 2 .. depth - 1 : d \in 2 .. depth
    BY <1>6, TopIsDeepest DEF Pop, maps
  <2>2. MatchOf(top)' = top.called.match
    BY <1>6, PopRestores
  <2>3. ASSUME NEW d \in 2 .. depth - 1
        PROVE  /\ frames'[d].saved = {} => MatchAt(d)' = frames'[d].called.match
               /\ \A old \in frames'[d].saved : First(d, old)' => old.match = frames'[d].called.match
    <3>1. d \in 1 .. depth - 1 /\ d \in 2 .. depth /\ d # depth
      BY TopIsDeepest
    <3>2. MatchAt(d)' = MatchAt(d)
      <4>1. CASE d = depth - 1
        <5>1. d + 1 = depth
          BY <4>1, TopIsDeepest
        <5> QED BY <2>1, <2>2, <3>1, <4>1, <5>1, TopIsDeepest DEF MatchAt
      <4>2. CASE d # depth - 1
        <5>1. d + 1 \in 1 .. depth - 1
          BY <3>1, <4>2, TopIsDeepest
        <5> QED BY <2>1, <3>1, <4>2, <5>1 DEF MatchAt
      <4> QED BY <4>1, <4>2
    <3>3. \A old : First(d, old)' <=> First(d, old)
      BY <2>1, <3>1 DEF First
    <3> QED BY <2>1, <3>1, <3>2, <3>3 DEF MatchKept
  <2> QED BY <2>1, <2>3 DEF MatchKept
<1>7. CASE Stays
  BY <1>7 DEF Stays, MatchKept, MatchAt, MatchOf, First, config, maps, depth, top
<1> QED BY <1>1, <1>2, <1>3, <1>4, <1>5, <1>6, <1>7, Steps

-----------------------------------------------------------------------------
(* What calls do to the writers.                                           *)

AllWriters == Servers1 \cup Proxies \cup Options
Statuses == SUBSET (Methods \cup {"none", "OPTIONS"})

\* A call may change what writers know, but not which there are.
SameWriters(s, t) ==
    /\ Len(t) = Len(s)
    /\ \A k \in 2 .. Len(s) : t[k].at = s[k].at /\ (IsProxy(t[k]) <=> IsProxy(s[k]))
                              /\ t[k].kind = s[k].kind

\* StatusTrue, of any writers.
Clear(s, k) == IsProxy(s[k]) /\ \A j \in 1 .. k : s[j].kind # "options"
TrueCodes(s) == \A k \in DOMAIN s : Clear(s, k) /\ ~s[1].flushed => s[k].code = s[1].code

\* autoOptionsProxies that swallow the body.
Swallowers(s) == {k \in 2 .. Len(s) : s[k].kind = "options" /\ s[k].state = "proxying"}

\* Which writers there are.
LEMMA WriterFacts ==
    ASSUME NEW s, Writers(s)
    PROVE  /\ Len(s) \in Nat /\ DOMAIN s = 1 .. Len(s) /\ 1 \in DOMAIN s /\ s \in Seq(AllWriters)
           /\ s[1].kind = "server" /\ ~IsProxy(s[1])
           /\ \A k \in DOMAIN s : k # 1 => k \in 2 .. Len(s)
           /\ \A k \in 2 .. Len(s) :
                 /\ k \in DOMAIN s /\ s[k].at \in Places
                 /\ \/ s[k] \in Proxies /\ IsProxy(s[k]) /\ s[k].kind # "options" /\ s[k].kind # "server"
                    \/ s[k] \in Options /\ ~IsProxy(s[k]) /\ s[k].kind = "options"
<1>1. /\ Len(s) \in Nat /\ DOMAIN s = 1 .. Len(s) /\ 1 \in DOMAIN s /\ s \in Seq(AllWriters)
  BY LenProperties DEF Writers, AllWriters
<1>2. s[1].kind = "server" /\ ~IsProxy(s[1])
  BY DEF Writers, Servers1, IsProxy
<1>3. \A k \in DOMAIN s : k # 1 => k \in 2 .. Len(s)
  BY <1>1
<1>4. ASSUME NEW k \in 2 .. Len(s)
      PROVE  /\ k \in DOMAIN s /\ s[k].at \in Places
             /\ \/ s[k] \in Proxies /\ IsProxy(s[k]) /\ s[k].kind # "options" /\ s[k].kind # "server"
                \/ s[k] \in Options /\ ~IsProxy(s[k]) /\ s[k].kind = "options"
  <2>1. s[k] \in Proxies \/ s[k] \in Options
    BY DEF Writers
  <2> QED BY <1>1, <2>1 DEF Proxies, Options, IsProxy
<1> QED BY <1>1, <1>2, <1>3, <1>4

\* The server, a proxy and an autoOptionsProxy hear of a status.
LEMMA ServerTold ==
    ASSUME NEW code \in Nat, NEW w \in Servers1
    PROVE  /\ ServerHeader(w, code) \in Servers1 /\ ServerHeader(w, code).flushed = w.flushed
           /\ ServerHeader(w, code).code = IF w.code = 0 THEN code ELSE w.code
<1>1. CASE w.code = 0
  <2>1. ServerHeader(w, code) = [w EXCEPT !.code = code, !.sentAllow = w.allow]
    BY <1>1 DEF ServerHeader
  <2> QED BY <1>1, <2>1 DEF Servers1
<1>2. CASE w.code # 0
  BY <1>2 DEF ServerHeader
<1> QED BY <1>1, <1>2

LEMMA ServerHeaded ==
    ASSUME NEW code \in Nat, NEW w \in Servers1
    PROVE  /\ Headed(w, code) \in Servers1 /\ Headed(w, code).flushed = w.flushed
           /\ Headed(w, code).code = IF w.code = 0 THEN code ELSE w.code
<1>1. w.kind = "server"
  BY DEF Servers1
<1>2. ~IsProxy(w) /\ w.kind # "options"
  BY <1>1 DEF IsProxy
<1>3. Headed(w, code) = ServerHeader(w, code)
  BY <1>1, <1>2 DEF Headed
<1> QED BY <1>3, ServerTold

LEMMA ProxyHeaded ==
    ASSUME NEW code \in Nat, NEW w \in Proxies
    PROVE  /\ Headed(w, code) \in Proxies /\ Headed(w, code).kind = w.kind
           /\ Headed(w, code).at = w.at /\ Headed(w, code).code = code
<1>1. w.kind # "server" /\ IsProxy(w)
  BY DEF Proxies, IsProxy
<1>2. Headed(w, code) = [w EXCEPT !.code = code]
  BY <1>1 DEF Headed, IsProxy
<1> QED BY <1>2 DEF Proxies

LEMMA OptionsHeaded ==
    ASSUME NEW code \in Nat, NEW w \in Options
    PROVE  /\ Headed(w, code) \in Options /\ Headed(w, code).kind = w.kind
           /\ Headed(w, code).at = w.at
           /\ Headed(w, code).state = "proxying" => w.state = "proxying"
<1>1. w.kind = "options"
  BY DEF Options
<1>2. Headed(w, code) = [w EXCEPT !.state = IF w.state = "init" THEN "headerWritten" ELSE w.state]
  BY <1>1 DEF Headed, IsProxy
<1> QED BY <1>2 DEF Options

\* Writers with each changed after its kind.
LEMMA ChangedWriters ==
    ASSUME NEW s, Writers(s), NEW t, DOMAIN t = DOMAIN s, t = [j \in DOMAIN t |-> t[j]],
           t[1] \in Servers1,
           \A k \in 2 .. Len(s) : /\ s[k] \in Proxies => t[k] \in Proxies
                                  /\ s[k] \in Options => t[k] \in Options
                                  /\ t[k].kind = s[k].kind /\ t[k].at = s[k].at
    PROVE  Writers(t) /\ SameWriters(s, t)
<1>1. /\ Len(s) \in Nat /\ DOMAIN s = 1 .. Len(s)
      /\ \A k \in 2 .. Len(s) : s[k] \in Proxies \/ s[k] \in Options
  BY WriterFacts
<1>2. \A k \in 2 .. Len(s) : t[k] \in Proxies \cup Options
  BY <1>1
<1>3. \A k \in 1 .. Len(s) : t[k] \in AllWriters
  <2> TAKE k \in 1 .. Len(s)
  <2>1. k = 1 \/ k \in 2 .. Len(s)
    BY <1>1
  <2> QED BY <1>2, <2>1 DEF AllWriters
<1>4. t = [j \in 1 .. Len(s) |-> t[j]]
  BY <1>1
<1>5. t \in Seq(AllWriters) /\ Len(t) = Len(s)
  BY <1>1, <1>3, <1>4, IsASeq
<1>6. Writers(t)
  BY <1>2, <1>5 DEF Writers, AllWriters
<1>7. SameWriters(s, t)
  BY <1>5 DEF SameWriters, IsProxy
<1> QED BY <1>6, <1>7

\* Below the first autoOptionsProxy all have sent a header or none has.
LEMMA ClearFacts ==
    ASSUME NEW s, Writers(s), TrueCodes(s), ~s[1].flushed, NEW k \in DOMAIN s, Clear(s, k)
    PROVE  /\ s[k].code = s[1].code /\ k \in 2 .. Len(s) /\ s[k] \in Proxies
           /\ s[1].code = 0 => \A i \in 1 .. k : Heads(s[i])
           /\ s[1].code # 0 => ~Heads(s[k])
<1>1. /\ Len(s) \in Nat /\ DOMAIN s = 1 .. Len(s) /\ ~IsProxy(s[1])
  BY WriterFacts
<1>2. s[k].code = s[1].code
  BY DEF TrueCodes
<1>3. k # 1 /\ k \in 2 .. Len(s)
  BY <1>1 DEF Clear
<1>4. s[k] \in Proxies
  BY <1>3, WriterFacts DEF Clear
<1>5. ASSUME s[1].code = 0, NEW i \in 1 .. k PROVE Heads(s[i])
  <2>1. CASE IsProxy(s[i])
    <3>1. i \in DOMAIN s /\ Clear(s, i)
      BY <1>1, <2>1 DEF Clear
    <3> QED BY <1>5, <3>1 DEF TrueCodes, Heads
  <2>2. CASE ~IsProxy(s[i])
    BY <2>2 DEF Heads
  <2> QED BY <2>1, <2>2
<1> QED BY <1>2, <1>3, <1>4, <1>5 DEF Clear, Heads

\* Clear ones stay so.
LEMMA ClearStays ==
    ASSUME NEW s, Writers(s), NEW t, Writers(t), SameWriters(s, t), NEW k \in DOMAIN t, Clear(t, k)
    PROVE  k \in DOMAIN s /\ Clear(s, k)
<1>1. /\ Len(s) \in Nat /\ DOMAIN s = 1 .. Len(s) /\ DOMAIN t = DOMAIN s
      /\ ~IsProxy(t[1]) /\ s[1].kind # "options"
  BY WriterFacts DEF SameWriters
<1>2. k \in 2 .. Len(s)
  BY <1>1, WriterFacts DEF Clear
<1>3. \A j \in 1 .. k : s[j].kind # "options"
  <2> TAKE j \in 1 .. k
  <2>1. j = 1 \/ j \in 2 .. Len(s)
    BY <1>1, <1>2
  <2> QED BY <1>1, <2>1 DEF SameWriters, Clear
<1> QED BY <1>1, <1>2, <1>3 DEF SameWriters, Clear

\* The proxies that the body passes send 200 first, unless they have sent something.
LEMMA WithHeadersFacts ==
    ASSUME NEW s, Writers(s), NEW S, S \subseteq 1 .. Len(s),
           \A i \in S : \A k \in i .. Len(s) : k \in S
    PROVE  LET t == WithHeaders(s, S) IN
           /\ Writers(t) /\ SameWriters(s, t) /\ Swallowers(t) \subseteq Swallowers(s)
           /\ t[1].flushed = s[1].flushed
           /\ TrueCodes(s) => /\ TrueCodes(t)
                              /\ \A k \in S : Clear(s, k) /\ ~s[1].flushed => t[1].code # 0
<1> DEFINE t == WithHeaders(s, S)
           Hit(j) == \E i \in S : IsProxy(s[i]) /\ j \in Reached(s, i)
<1>1. /\ Len(s) \in Nat /\ DOMAIN s = 1 .. Len(s) /\ 1 \in DOMAIN s /\ s[1] \in Servers1
      /\ \A k \in 2 .. Len(s) : k \in DOMAIN s /\ (s[k] \in Proxies \/ s[k] \in Options)
  BY WriterFacts DEF Writers
<1>2. DOMAIN t = DOMAIN s /\ t = [j \in DOMAIN t |-> t[j]]
      /\ \A j \in DOMAIN s : t[j] = IF Hit(j) THEN Headed(s[j], 200) ELSE s[j]
  BY DEF WithHeaders
<1>3. \A i \in 1 .. Len(s) : \A j : j \in Reached(s, i) <=> j \in 1 .. i /\ \A l \in j .. i : Heads(s[l])
  BY DEF Reached
<1> HIDE DEF t
<1>4. /\ t[1] \in Servers1 /\ t[1].flushed = s[1].flushed
      /\ t[1].code = IF Hit(1) /\ s[1].code = 0 THEN 200 ELSE s[1].code
  <2> HIDE DEF Hit
  <2>1. t[1] = IF Hit(1) THEN Headed(s[1], 200) ELSE s[1]
    BY <1>1, <1>2
  <2>2. /\ Headed(s[1], 200) \in Servers1 /\ Headed(s[1], 200).flushed = s[1].flushed
        /\ Headed(s[1], 200).code = IF s[1].code = 0 THEN 200 ELSE s[1].code
    BY <1>1, 200 \in Nat, ServerHeaded
  <2> QED BY <1>1, <2>1, <2>2
<1>5. \A k \in 2 .. Len(s) :
         /\ s[k] \in Proxies => t[k] \in Proxies /\ t[k].code = IF Hit(k) THEN 200 ELSE s[k].code
         /\ s[k] \in Options => t[k] \in Options /\ (t[k].state = "proxying" => s[k].state = "proxying")
         /\ t[k].kind = s[k].kind /\ t[k].at = s[k].at
  <2> HIDE DEF Hit
  <2> TAKE k \in 2 .. Len(s)
  <2>1. CASE s[k] \in Proxies
    <3>1. s[k] \notin Options
      BY <2>1 DEF Proxies, Options
    <3>2. /\ Headed(s[k], 200) \in Proxies /\ Headed(s[k], 200).kind = s[k].kind
          /\ Headed(s[k], 200).at = s[k].at /\ Headed(s[k], 200).code = 200
      BY <2>1, 200 \in Nat, ProxyHeaded
    <3> QED BY <1>1, <1>2, <2>1, <3>1, <3>2
  <2>2. CASE s[k] \in Options
    <3>1. s[k] \notin Proxies
      BY <2>2 DEF Proxies, Options
    <3>2. /\ Headed(s[k], 200) \in Options /\ Headed(s[k], 200).kind = s[k].kind
          /\ Headed(s[k], 200).at = s[k].at
          /\ Headed(s[k], 200).state = "proxying" => s[k].state = "proxying"
      BY <2>2, 200 \in Nat, OptionsHeaded
    <3> QED BY <1>1, <1>2, <2>2, <3>1, <3>2
  <2> QED BY <1>1, <2>1, <2>2
<1>6. Writers(t) /\ SameWriters(s, t)
  <2> HIDE DEF Hit
  <2> QED BY <1>2, <1>4, <1>5, ChangedWriters
<1>7. Swallowers(t) \subseteq Swallowers(s)
  <2> SUFFICES ASSUME NEW k \in 2 .. Len(s), t[k].kind = "options", t[k].state = "proxying"
               PROVE  k \in Swallowers(s)
    BY <1>6 DEF Swallowers, SameWriters
  <2>1. s[k].kind = "options"
    BY <1>5
  <2>2. s[k] \in Options
    BY <2>1, WriterFacts
  <2> QED BY <1>5, <2>1, <2>2 DEF Swallowers
<1>8. ASSUME TrueCodes(s), ~s[1].flushed, NEW k \in DOMAIN s, Clear(s, k)
      PROVE  t[k].code = t[1].code /\ (k \in S => t[1].code # 0)
  <2>1. /\ s[k].code = s[1].code /\ k \in 2 .. Len(s) /\ s[k] \in Proxies /\ IsProxy(s[k])
        /\ s[1].code = 0 => \A i \in 1 .. k : Heads(s[i])
        /\ s[1].code # 0 => ~Heads(s[k])
    BY <1>8, ClearFacts DEF Clear
  <2>2. t[k].code = IF Hit(k) THEN 200 ELSE s[k].code
    BY <1>5, <2>1
  <2>3. CASE s[1].code # 0
    <3>1. ~Hit(k)
      <4> SUFFICES ASSUME NEW i \in S, k \in Reached(s, i) PROVE FALSE
        OBVIOUS
      <4>1. i \in 1 .. Len(s) /\ k \in 1 .. i
        BY <1>3
      <4>2. k \in k .. i
        BY <4>1
      <4>3. Heads(s[k])
        BY <1>3, <4>1, <4>2
      <4> QED BY <2>1, <2>3, <4>3
    <3> HIDE DEF Hit
    <3> QED BY <1>4, <2>1, <2>2, <2>3, <3>1
  <2>4. CASE s[1].code = 0
    <3>1. k \in Reached(s, k)
      <4>1. k \in 1 .. Len(s) /\ k \in 1 .. k /\ \A l \in k .. k : l \in 1 .. k
        BY <1>1, <2>1
      <4> QED BY <1>3, <2>1, <2>4, <4>1
    <3>2. k \in S => Hit(k)
      BY <2>1, <3>1
    <3>3. Hit(1) => Hit(k)
      <4> SUFFICES ASSUME NEW i \in S, IsProxy(s[i]), 1 \in Reached(s, i) PROVE Hit(k)
        OBVIOUS
      <4>1. i \in 1 .. Len(s) /\ \A l \in 1 .. i : Heads(s[l])
        BY <1>3
      <4>2. CASE i >= k
        <5>1. k \in 1 .. i /\ \A l \in k .. i : l \in 1 .. i
          BY <2>1, <4>1, <4>2
        <5>2. k \in Reached(s, i)
          BY <1>3, <4>1, <5>1
        <5> QED BY <5>2
      <4>3. CASE ~(i >= k)
        <5>1. k \in i .. Len(s)
          BY <2>1, <4>1, <4>3
        <5>2. k \in S
          BY <5>1
        <5> QED BY <3>2, <5>2
      <4> QED BY <4>2, <4>3
    <3>4. Hit(k) => Hit(1)
      <4> SUFFICES ASSUME NEW i \in S, IsProxy(s[i]), k \in Reached(s, i) PROVE Hit(1)
        OBVIOUS
      <4>1. i \in 1 .. Len(s) /\ k \in 1 .. i /\ \A l \in k .. i : Heads(s[l])
        BY <1>3
      <4>2. \A l \in 1 .. i : l \in 1 .. k \/ l \in k .. i
        BY <4>1
      <4>3. 1 \in 1 .. i /\ \A l \in 1 .. i : Heads(s[l])
        BY <2>1, <2>4, <4>1, <4>2
      <4>4. 1 \in Reached(s, i)
        BY <1>3, <4>1, <4>3
      <4> QED BY <4>4
    <3> HIDE DEF Hit
    <3> QED BY <1>4, <2>1, <2>2, <2>4, <3>2, <3>3, <3>4
  <2> QED BY <2>3, <2>4
<1>9. ASSUME TrueCodes(s) PROVE TrueCodes(t)
  <2> SUFFICES ASSUME NEW k \in DOMAIN t, Clear(t, k), ~t[1].flushed PROVE t[k].code = t[1].code
    BY DEF TrueCodes
  <2>1. k \in DOMAIN s /\ Clear(s, k)
    BY <1>6, ClearStays
  <2> QED BY <1>4, <1>8, <1>9, <2>1
<1>10. ASSUME TrueCodes(s), NEW k \in S, Clear(s, k), ~s[1].flushed PROVE t[1].code # 0
  BY <1>1, <1>8, <1>10
<1> QED BY <1>4, <1>6, <1>7, <1>9, <1>10 DEF t

\* The methods that the muxes of the autoOptionsProxies know.
Telltale(valid, s) == {k \in 2 .. Len(s) : valid[s[k].at[1]] # NoMethods}

\* A status on its way down reaches all below the first autoOptionsProxy or none,
\* and one who swallows from then on knows of methods.
LEMMA WriteHeaderFacts ==
    ASSUME NEW s, Writers(s), NEW code \in Nat, NEW valid,
           \A k \in 2 .. Len(s) : valid[s[k].at[1]] \subseteq Methods \cup {"none"}
    PROVE  LET t == WriteHeader(s, Len(s), code, valid) IN
           /\ Writers(t) /\ SameWriters(s, t) /\ t[1].flushed = s[1].flushed
           /\ Swallowers(t) \subseteq Swallowers(s) \cup Telltale(valid, s)
           /\ TrueCodes(s) => TrueCodes(t)
<1> DEFINE n == Len(s)
           t == WriteHeader(s, n, code, valid)
           reached == Reached(s, n)
           rewriters == {j \in reached : Rewrites(s[j], code, valid)}
           first == {j \in rewriters : \A i \in rewriters : i <= j}
           sent(j) == IF \E i \in first : j < i THEN 200 ELSE code
           allow == UNION {valid[s[i].at[1]] \cup {"OPTIONS"} : i \in first}
           told == IF first = {} THEN s ELSE [s EXCEPT ![1].allow = allow]
<1>1. /\ n \in Nat /\ DOMAIN s = 1 .. n /\ 1 \in DOMAIN s /\ s[1] \in Servers1
      /\ s[1].kind = "server" /\ n >= 1
      /\ \A k \in 2 .. n : k \in DOMAIN s /\ (s[k] \in Proxies \/ s[k] \in Options)
      /\ \A k \in 2 .. n : s[k].kind = "options" => s[k] \in Options
  BY WriterFacts DEF Writers
<1>2. t = [j \in DOMAIN s |->
              IF j \in first THEN [s[j] EXCEPT !.state = "proxying"]
              ELSE IF j \in reached THEN Headed(told[j], sent(j)) ELSE told[j]]
  BY DEF WriteHeader
<1>3. \A j : j \in reached <=> j \in 1 .. n /\ \A l \in j .. n : Heads(s[l])
  BY DEF Reached
<1>4. \A j \in first : /\ j \in reached /\ j \in 2 .. n /\ s[j].kind = "options"
                       /\ valid[s[j].at[1]] # NoMethods
  <2> TAKE j \in first
  <2>1. /\ j \in reached /\ s[j].kind = "options" /\ valid[s[j].at[1]] # NoMethods
    BY DEF Rewrites
  <2>2. j \in 1 .. n /\ j # 1
    BY <1>1, <1>3, <2>1
  <2> HIDE DEF first
  <2> QED BY <1>1, <2>1, <2>2
<1> HIDE DEF reached, first
<1>5. allow \in Statuses
  BY <1>4 DEF Statuses
<1>6. /\ DOMAIN told = DOMAIN s /\ told[1] \in Servers1 /\ told[1].flushed = s[1].flushed
      /\ told[1].code = s[1].code
      /\ \A k \in 2 .. n : told[k] = s[k]
  <2> HIDE DEF allow
  <2>1. CASE first = {}
    BY <1>1, <2>1
  <2>2. CASE first # {}
    <3>1. told = [s EXCEPT ![1] = [s[1] EXCEPT !.allow = allow]]
      BY <2>2
    <3> HIDE DEF told
    <3>2. /\ [s[1] EXCEPT !.allow = allow] \in Servers1
          /\ [s[1] EXCEPT !.allow = allow].flushed = s[1].flushed
          /\ [s[1] EXCEPT !.allow = allow].code = s[1].code
      BY <1>1, <1>5 DEF Servers1, Statuses
    <3>3. told[1] = [s[1] EXCEPT !.allow = allow] /\ DOMAIN told = DOMAIN s
          /\ \A k \in DOMAIN s : k # 1 => told[k] = s[k]
      BY <1>1, <3>1
    <3> QED BY <1>1, <3>2, <3>3
  <2> QED BY <2>1, <2>2
<1>7. \A j : sent(j) \in Nat
  BY 200 \in Nat
<1> HIDE DEF told, allow
<1>8. DOMAIN t = DOMAIN s /\ t = [j \in DOMAIN t |-> t[j]]
      /\ \A j \in DOMAIN s : t[j] = IF j \in first THEN [s[j] EXCEPT !.state = "proxying"]
                                    ELSE IF j \in reached THEN Headed(told[j], sent(j)) ELSE told[j]
  <2> HIDE DEF t, sent
  <2> QED BY <1>2
<1> HIDE DEF t
<1>9. /\ t[1] \in Servers1 /\ t[1].flushed = s[1].flushed
      /\ t[1].code = IF 1 \in reached /\ s[1].code = 0 THEN sent(1) ELSE s[1].code
  <2> HIDE DEF sent
  <2>1. t[1] = IF 1 \in reached THEN Headed(told[1], sent(1)) ELSE told[1]
    BY <1>1, <1>4, <1>8
  <2>2. /\ Headed(told[1], sent(1)) \in Servers1 /\ Headed(told[1], sent(1)).flushed = told[1].flushed
        /\ Headed(told[1], sent(1)).code = IF told[1].code = 0 THEN sent(1) ELSE told[1].code
    BY <1>6, <1>7, ServerHeaded
  <2> QED BY <1>6, <2>1, <2>2
<1>10. ASSUME NEW k \in 2 .. n, s[k] \in Proxies
       PROVE  t[k] \in Proxies /\ t[k].kind = s[k].kind /\ t[k].at = s[k].at
              /\ t[k].code = IF k \in reached THEN sent(k) ELSE s[k].code
  <2> HIDE DEF sent
  <2>1. k \notin first
    BY <1>4, <1>10 DEF Proxies
  <2>2. t[k] = IF k \in reached THEN Headed(s[k], sent(k)) ELSE s[k]
    BY <1>1, <1>6, <1>8, <2>1
  <2>3. /\ Headed(s[k], sent(k)) \in Proxies /\ Headed(s[k], sent(k)).kind = s[k].kind
        /\ Headed(s[k], sent(k)).at = s[k].at /\ Headed(s[k], sent(k)).code = sent(k)
    BY <1>7, <1>10, ProxyHeaded
  <2> QED BY <1>10, <2>2, <2>3
<1>11. ASSUME NEW k \in 2 .. n, s[k] \in Options
       PROVE  t[k] \in Options /\ t[k].kind = s[k].kind /\ t[k].at = s[k].at
              /\ (t[k].state = "proxying" => s[k].state = "proxying" \/ k \in first)
  <2> HIDE DEF sent
  <2>1. CASE k \in first
    <3>1. t[k] = [s[k] EXCEPT !.state = "proxying"]
      BY <1>1, <1>8, <2>1
    <3> QED BY <1>11, <2>1, <3>1 DEF Options
  <2>2. CASE k \notin first
    <3>1. t[k] = IF k \in reached THEN Headed(s[k], sent(k)) ELSE s[k]
      BY <1>1, <1>6, <1>8, <2>2
    <3>2. /\ Headed(s[k], sent(k)) \in Options /\ Headed(s[k], sent(k)).kind = s[k].kind
          /\ Headed(s[k], sent(k)).at = s[k].at
          /\ Headed(s[k], sent(k)).state = "proxying" => s[k].state = "proxying"
      BY <1>7, <1>11, OptionsHeaded
    <3> QED BY <1>11, <3>1, <3>2
  <2> QED BY <2>1, <2>2
<1>12. \A k \in 2 .. n : t[k].kind = s[k].kind /\ t[k].at = s[k].at
  BY <1>1, <1>10, <1>11
<1>13. Writers(t) /\ SameWriters(s, t)
  <2> HIDE DEF sent
  <2> QED BY <1>8, <1>9, <1>10, <1>11, <1>12, ChangedWriters
<1>14. Swallowers(t) \subseteq Swallowers(s) \cup Telltale(valid, s)
  <2> SUFFICES ASSUME NEW k \in 2 .. n, t[k].kind = "options", t[k].state = "proxying"
               PROVE  k \in Swallowers(s) \/ k \in Telltale(valid, s)
    BY <1>13 DEF Swallowers, SameWriters
  <2>1. s[k].kind = "options" /\ s[k] \in Options
    BY <1>1, <1>12
  <2>2. s[k].state = "proxying" \/ valid[s[k].at[1]] # NoMethods
    BY <1>4, <1>11, <2>1
  <2> QED BY <2>1, <2>2 DEF Swallowers, Telltale
<1>15. ASSUME TrueCodes(s) PROVE TrueCodes(t)
  <2> SUFFICES ASSUME NEW k \in DOMAIN t, Clear(t, k), ~t[1].flushed PROVE t[k].code = t[1].code
    BY DEF TrueCodes
  <2>1. k \in DOMAIN s /\ Clear(s, k) /\ ~s[1].flushed
    BY <1>9, <1>13, ClearStays
  <2>2. /\ s[k].code = s[1].code /\ k \in 2 .. n /\ s[k] \in Proxies
        /\ s[1].code = 0 => \A i \in 1 .. k : Heads(s[i])
        /\ s[1].code # 0 => ~Heads(s[k])
    BY <1>15, <2>1, ClearFacts
  <2>3. t[k].code = IF k \in reached THEN sent(k) ELSE s[k].code
    BY <1>10, <2>2
  <2>4. CASE s[1].code # 0
    <3>1. k \notin reached
      <4>1. k \in k .. n
        BY <2>2
      <4> QED BY <1>3, <2>2, <2>4, <4>1
    <3> HIDE DEF sent
    <3> QED BY <1>9, <2>2, <2>3, <2>4, <3>1
  <2>5. CASE s[1].code = 0
    <3>1. k \in reached <=> 1 \in reached
      <4>1. \A l \in 1 .. n : l \in 1 .. k \/ l \in k .. n
        BY <2>2
      <4>2. \A l \in k .. n : l \in 1 .. n
        BY <2>2
      <4>3. k \in 1 .. n /\ 1 \in 1 .. n
        BY <1>1, <2>2
      <4> QED BY <1>3, <2>2, <2>5, <4>1, <4>2, <4>3
    <3>2. sent(k) = sent(1)
      <4>1. \A i \in first : i \in 2 .. n /\ i \notin 1 .. k
        BY <1>4, <2>1 DEF Clear
      <4>2. \A i \in first : k < i /\ 1 < i
        BY <1>1, <2>2, <4>1
      <4> QED BY <4>2
    <3> HIDE DEF sent
    <3> QED BY <1>9, <2>2, <2>3, <2>5, <3>1, <3>2
  <2> QED BY <2>4, <2>5
<1> QED BY <1>9, <1>13, <1>14, <1>15 DEF t

\* What every call does.
Written(s, t, valid) ==
    /\ Writers(t) /\ SameWriters(s, t) /\ (TrueCodes(s) => TrueCodes(t))
    /\ Swallowers(t) \subseteq Swallowers(s) \cup Telltale(valid, s)

\* One writer gets a piece of the body.
LEMMA FedFacts ==
    ASSUME NEW w
    PROVE  /\ w \in Servers1 => /\ Fed(w) \in Servers1 /\ Fed(w).flushed = w.flushed
                                /\ Fed(w).code = IF w.code = 0 THEN 200 ELSE w.code
           /\ w \in Proxies => /\ Fed(w) \in Proxies /\ Fed(w).kind = w.kind /\ Fed(w).at = w.at
                               /\ Fed(w).code = w.code
           /\ w \in Options => /\ Fed(w) \in Options /\ Fed(w).kind = w.kind /\ Fed(w).at = w.at
                               /\ Fed(w).state = "headerWritten"
<1>1. ASSUME w \in Servers1
      PROVE  /\ Fed(w) \in Servers1 /\ Fed(w).flushed = w.flushed
             /\ Fed(w).code = IF w.code = 0 THEN 200 ELSE w.code
  <2>1. w.kind = "server"
    BY <1>1 DEF Servers1
  <2>2. ~IsProxy(w) /\ w.kind # "options"
    BY <2>1 DEF IsProxy
  <2> DEFINE h == ServerHeader(w, 200)
  <2>3. h \in Servers1 /\ h.flushed = w.flushed /\ h.code = IF w.code = 0 THEN 200 ELSE w.code
    BY <1>1, 200 \in Nat, ServerTold
  <2>4. Fed(w) = [h EXCEPT !.bytes = h.bytes + 1]
    BY <2>1, <2>2 DEF Fed
  <2> HIDE DEF h
  <2> QED BY <2>3, <2>4 DEF Servers1
<1>2. ASSUME w \in Proxies
      PROVE  /\ Fed(w) \in Proxies /\ Fed(w).kind = w.kind /\ Fed(w).at = w.at
             /\ Fed(w).code = w.code
  <2>1. w.kind # "server" /\ IsProxy(w)
    BY <1>2 DEF Proxies, IsProxy
  <2>2. Fed(w) = [w EXCEPT !.bytes = w.bytes + 1]
    BY <2>1 DEF Fed, IsProxy
  <2> QED BY <1>2, <2>2 DEF Proxies
<1>3. ASSUME w \in Options
      PROVE  /\ Fed(w) \in Options /\ Fed(w).kind = w.kind /\ Fed(w).at = w.at
             /\ Fed(w).state = "headerWritten"
  <2>1. w.kind = "options"
    BY <1>3 DEF Options
  <2>2. Fed(w) = [w EXCEPT !.state = "headerWritten"]
    BY <2>1 DEF Fed, IsProxy
  <2> QED BY <1>3, <2>2 DEF Options
<1> QED BY <1>1, <1>2, <1>3

\* A piece of the body goes as far as nobody swallows it; if it gets to net/http,
\* all proxies above the first autoOptionsProxy have sent a header.
LEMMA WriteFacts ==
    ASSUME NEW s, Writers(s), NEW valid
    PROVE  Written(s, Write(s, Len(s)), valid)
<1> DEFINE n == Len(s)
           through == {j \in 1 .. n : \A i \in j .. n : ~Swallows(s[i])}
           h == WithHeaders(s, through)
           t == [j \in DOMAIN s |-> IF j \in through THEN Fed(h[j]) ELSE h[j]]
<1>1. Write(s, n) = t
  BY DEF Write
<1>2. /\ n \in Nat /\ DOMAIN s = 1 .. n /\ 1 \in DOMAIN s
      /\ \A k \in 2 .. n : k \in DOMAIN s
  BY WriterFacts
<1>3. through \subseteq 1 .. n /\ \A i \in through : \A k \in i .. n : k \in through
  <2>1. ASSUME NEW i \in through, NEW k \in i .. n PROVE k \in through
    <3>1. k \in 1 .. n /\ \A l \in k .. n : l \in i .. n
      OBVIOUS
    <3> QED BY <3>1
  <2> QED BY <2>1
<1> HIDE DEF through
<1>4. /\ Writers(h) /\ SameWriters(s, h) /\ Swallowers(h) \subseteq Swallowers(s)
      /\ h[1].flushed = s[1].flushed
      /\ TrueCodes(s) => /\ TrueCodes(h)
                         /\ \A k \in through : Clear(s, k) /\ ~s[1].flushed => h[1].code # 0
  <2>1. LET g == WithHeaders(s, through) IN
           /\ Writers(g) /\ SameWriters(s, g) /\ Swallowers(g) \subseteq Swallowers(s)
           /\ g[1].flushed = s[1].flushed
           /\ TrueCodes(s) => /\ TrueCodes(g)
                              /\ \A k \in through : Clear(s, k) /\ ~s[1].flushed => g[1].code # 0
    BY <1>3, WithHeadersFacts
  <2> QED BY <2>1
<1> HIDE DEF h
<1>5. /\ DOMAIN h = DOMAIN s /\ h[1] \in Servers1 /\ Len(h) = n
      /\ \A k \in 2 .. n : h[k] \in Proxies \/ h[k] \in Options
  <2>1. DOMAIN h = 1 .. Len(h) /\ Len(h) = n
    BY <1>4, WriterFacts DEF SameWriters
  <2> QED BY <1>2, <1>4, <2>1 DEF Writers
<1>6. DOMAIN t = DOMAIN h /\ t = [j \in DOMAIN t |-> t[j]]
      /\ \A j \in DOMAIN s : t[j] = IF j \in through THEN Fed(h[j]) ELSE h[j]
  BY <1>5
<1> HIDE DEF t
<1>7. /\ t[1] \in Servers1 /\ t[1].flushed = s[1].flushed
      /\ t[1].code = IF 1 \in through /\ h[1].code = 0 THEN 200 ELSE h[1].code
  BY <1>2, <1>4, <1>5, <1>6, FedFacts
<1>8. ASSUME NEW k \in 2 .. n
      PROVE  /\ h[k] \in Proxies => t[k] \in Proxies /\ t[k].code = h[k].code
             /\ h[k] \in Options => t[k] \in Options /\ (t[k].state = "proxying" => h[k].state = "proxying")
             /\ t[k].kind = h[k].kind /\ t[k].at = h[k].at
  <2>1. t[k] = IF k \in through THEN Fed(h[k]) ELSE h[k]
    BY <1>2, <1>6
  <2>2. CASE h[k] \in Proxies
    <3>1. h[k] \notin Options
      BY <2>2 DEF Proxies, Options
    <3> QED BY <2>1, <2>2, <3>1, FedFacts
  <2>3. CASE h[k] \in Options
    <3>1. h[k] \notin Proxies
      BY <2>3 DEF Proxies, Options
    <3> QED BY <2>1, <2>3, <3>1, FedFacts
  <2> QED BY <1>5, <2>2, <2>3
<1>9. Writers(t) /\ SameWriters(h, t)
  BY <1>4, <1>5, <1>6, <1>7, <1>8, ChangedWriters
<1>10. SameWriters(s, t)
  BY <1>4, <1>9 DEF SameWriters
<1>11. Swallowers(t) \subseteq Swallowers(h)
  <2> SUFFICES ASSUME NEW k \in 2 .. n, t[k].kind = "options", t[k].state = "proxying"
               PROVE  k \in Swallowers(h)
    BY <1>5, <1>9 DEF Swallowers, SameWriters
  <2>1. h[k].kind = "options"
    BY <1>8
  <2>2. h[k] \in Options
    BY <1>4, <1>5, <2>1, WriterFacts
  <2> QED BY <1>5, <1>8, <2>1, <2>2 DEF Swallowers
<1>12. ASSUME TrueCodes(s) PROVE TrueCodes(t)
  <2> SUFFICES ASSUME NEW k \in DOMAIN t, Clear(t, k), ~t[1].flushed PROVE t[k].code = t[1].code
    BY DEF TrueCodes
  <2>1. k \in DOMAIN h /\ Clear(h, k)
    BY <1>4, <1>9, ClearStays
  <2>2. k \in DOMAIN s /\ Clear(s, k)
    BY <1>4, <2>1, ClearStays
  <2>3. h[k].code = h[1].code /\ k \in 2 .. n /\ h[k] \in Proxies
    BY <1>4, <1>5, <1>7, <1>12, <2>1, ClearFacts
  <2>4. t[k].code = h[1].code
    BY <1>8, <2>3
  <2>5. ASSUME 1 \in through PROVE h[1].code # 0
    <3>1. k \in 1 .. n
      BY <1>2, <2>2
    <3>2. k \in through
      BY <1>3, <2>5, <3>1
    <3> QED BY <1>4, <1>7, <1>12, <2>2, <3>2
  <2> QED BY <1>7, <2>4, <2>5
<1> QED BY <1>1, <1>4, <1>9, <1>10, <1>11, <1>12 DEF Written

\* Flush sends 200, and says so, if there is no header yet.
LEMMA FlushFacts ==
    ASSUME NEW s, Writers(s), NEW valid
    PROVE  Written(s, Flush(s), valid)
<1> DEFINE h == ServerHeader(s[1], 200)
           early == s[1].flushed \/ s[1].code = 0
           w == [h EXCEPT !.flushed = early]
           t == [j \in DOMAIN s |-> IF j = 1 THEN w ELSE s[j]]
<1>1. /\ Len(s) \in Nat /\ DOMAIN s = 1 .. Len(s) /\ 1 \in DOMAIN s /\ s[1] \in Servers1
      /\ s \in Seq(AllWriters)
  BY WriterFacts DEF Writers
<1>2. Flush(s) = t
  <2>1. Flush(s) = [s EXCEPT ![1] = w]
    <3> HIDE DEF early
    <3> QED BY DEF Flush, early
  <2> HIDE DEF w
  <2> QED BY <1>1, <2>1
<1>3. /\ w \in Servers1 /\ (~w.flushed => ~s[1].flushed /\ w.code = s[1].code)
  <2>1. h \in Servers1 /\ (s[1].code # 0 => h.code = s[1].code) /\ h.flushed = s[1].flushed
    BY <1>1, 200 \in Nat, ServerTold
  <2>2. early \in BOOLEAN /\ (~early => ~s[1].flushed /\ s[1].code # 0)
    OBVIOUS
  <2> HIDE DEF h, early
  <2>3. w \in Servers1 /\ w.code = h.code /\ w.flushed = early
    BY <2>1, <2>2 DEF Servers1
  <2> HIDE DEF w
  <2> QED BY <2>1, <2>2, <2>3
<1> HIDE DEF w
<1>4. /\ DOMAIN t = DOMAIN s /\ t = [j \in DOMAIN t |-> t[j]] /\ t[1] = w
      /\ \A k \in 2 .. Len(s) : t[k] = s[k]
  BY <1>1
<1> HIDE DEF t
<1>5. Writers(t) /\ SameWriters(s, t)
  BY <1>3, <1>4, ChangedWriters
<1>6. Swallowers(t) \subseteq Swallowers(s)
  BY <1>4, <1>5 DEF Swallowers, SameWriters
<1>7. ASSUME TrueCodes(s) PROVE TrueCodes(t)
  <2> SUFFICES ASSUME NEW k \in DOMAIN t, Clear(t, k), ~t[1].flushed PROVE t[k].code = t[1].code
    BY DEF TrueCodes
  <2>1. k \in DOMAIN s /\ Clear(s, k) /\ ~s[1].flushed
    BY <1>3, <1>4, <1>5, ClearStays
  <2>2. s[k].code = s[1].code /\ k \in 2 .. Len(s)
    BY <1>7, <2>1, ClearFacts
  <2> QED BY <1>3, <1>4, <2>2
<1> QED BY <1>2, <1>5, <1>6, <1>7 DEF Written

\* ReadFrom goes past everybody, after each has sent a header.
LEMMA ReadFromFacts ==
    ASSUME NEW s, Writers(s), NEW valid
    PROVE  Written(s, ReadFrom(s, Len(s)), valid)
<1> DEFINE h == WithHeaders(s, 1 .. Len(s))
           t == [j \in DOMAIN h |-> IF j = 1 THEN Fed(h[1]) ELSE h[j]]
<1>2. Len(s) \in Nat /\ DOMAIN s = 1 .. Len(s)
  BY WriterFacts
<1>3. /\ Writers(h) /\ SameWriters(s, h) /\ Swallowers(h) \subseteq Swallowers(s)
      /\ h[1].flushed = s[1].flushed
      /\ TrueCodes(s) => /\ TrueCodes(h)
                         /\ \A k \in 1 .. Len(s) : Clear(s, k) /\ ~s[1].flushed => h[1].code # 0
  <2>1. \A i \in 1 .. Len(s) : \A k \in i .. Len(s) : k \in 1 .. Len(s)
    BY <1>2
  <2>2. LET g == WithHeaders(s, 1 .. Len(s)) IN
           /\ Writers(g) /\ SameWriters(s, g) /\ Swallowers(g) \subseteq Swallowers(s)
           /\ g[1].flushed = s[1].flushed
           /\ TrueCodes(s) =>
                 /\ TrueCodes(g)
                 /\ \A k \in 1 .. Len(s) : Clear(s, k) /\ ~s[1].flushed => g[1].code # 0
    BY <2>1, WithHeadersFacts
  <2> QED BY <2>2
<1> HIDE DEF h
<1>4. /\ Len(h) \in Nat /\ DOMAIN h = 1 .. Len(h) /\ 1 \in DOMAIN h /\ h[1] \in Servers1
      /\ h \in Seq(AllWriters) /\ Len(h) = Len(s)
  BY <1>3, WriterFacts DEF Writers, SameWriters
<1>1. ReadFrom(s, Len(s)) = t
  <2>1. ReadFrom(s, Len(s)) = [h EXCEPT ![1] = Fed(h[1])]
    BY DEF ReadFrom, h
  <2> QED BY <1>4, <2>1
<1>5. /\ Fed(h[1]) \in Servers1 /\ Fed(h[1]).flushed = s[1].flushed
      /\ Fed(h[1]).code = IF h[1].code = 0 THEN 200 ELSE h[1].code
  BY <1>3, <1>4, FedFacts
<1>6. /\ DOMAIN t = DOMAIN h /\ t = [j \in DOMAIN t |-> t[j]] /\ t[1] = Fed(h[1])
      /\ \A k \in 2 .. Len(h) : t[k] = h[k]
  BY <1>4
<1> HIDE DEF t
<1>7. Writers(t) /\ SameWriters(h, t)
  BY <1>3, <1>5, <1>6, ChangedWriters
<1>8. SameWriters(s, t)
  BY <1>3, <1>7 DEF SameWriters
<1>9. Swallowers(t) \subseteq Swallowers(h)
  BY <1>6, <1>7 DEF Swallowers, SameWriters
<1>10. ASSUME TrueCodes(s) PROVE TrueCodes(t)
  <2> SUFFICES ASSUME NEW k \in DOMAIN t, Clear(t, k), ~t[1].flushed PROVE t[k].code = t[1].code
    BY DEF TrueCodes
  <2>1. k \in DOMAIN h /\ Clear(h, k) /\ ~h[1].flushed
    BY <1>3, <1>5, <1>6, <1>7, ClearStays
  <2>2. k \in DOMAIN s /\ Clear(s, k) /\ ~s[1].flushed
    BY <1>3, <2>1, ClearStays
  <2>3. h[k].code = h[1].code /\ k \in 2 .. Len(h)
    BY <1>3, <1>10, <2>1, ClearFacts
  <2>4. h[1].code # 0
    BY <1>2, <1>3, <1>10, <2>2
  <2> QED BY <1>5, <1>6, <2>3, <2>4
<1> QED BY <1>1, <1>3, <1>7, <1>8, <1>9, <1>10 DEF Written

\* http.Error is both: a status, and then a piece of the body.
LEMMA ErrorFacts ==
    ASSUME NEW s, Writers(s), NEW code \in Nat, NEW valid,
           \A k \in 2 .. Len(s) : valid[s[k].at[1]] \subseteq Methods \cup {"none"}
    PROVE  Written(s, Error(s, code, valid), valid)
<1> DEFINE h == WriteHeader(s, Len(s), code, valid)
           t == Write(h, Len(s))
<1>1. Error(s, code, valid) = t
  BY DEF Error
<1>2. /\ Writers(h) /\ SameWriters(s, h)
      /\ Swallowers(h) \subseteq Swallowers(s) \cup Telltale(valid, s)
      /\ TrueCodes(s) => TrueCodes(h)
  <2>1. LET g == WriteHeader(s, Len(s), code, valid) IN
           /\ Writers(g) /\ SameWriters(s, g)
           /\ Swallowers(g) \subseteq Swallowers(s) \cup Telltale(valid, s)
           /\ TrueCodes(s) => TrueCodes(g)
    BY WriteHeaderFacts
  <2> QED BY <2>1
<1> HIDE DEF h
<1>3. Len(h) = Len(s)
  BY <1>2 DEF SameWriters
<1>4. Written(h, t, valid)
  BY <1>2, <1>3, WriteFacts
<1> HIDE DEF t
<1>5. SameWriters(s, t)
  BY <1>2, <1>4 DEF Written, SameWriters
<1>6. Telltale(valid, h) = Telltale(valid, s)
  BY <1>2 DEF Telltale, SameWriters
<1> QED BY <1>1, <1>2, <1>4, <1>5, <1>6 DEF Written

-----------------------------------------------------------------------------
(* Where the writers stand.                                                *)

Wraps(l) == l = "Logger" \/ (l = "AutomaticOptions" /\ method = "OPTIONS")

\* The layers entered are those up to i of each mux.
LEMMA InsideIs ==
    \A at : at \in Inside <=> \E d \in 1 .. depth : \E i \in 1 .. frames[d].i : at = <<d, i>>
BY DEF Inside

\* The places of layers.
LEMMA InsidePlaces ==
    ASSUME Shape
    PROVE  /\ \A d, i : <<d, i>> \in Inside <=> d \in 1 .. depth /\ i \in 1 .. frames[d].i
           /\ \A at \in Inside : /\ at = <<at[1], at[2]>> /\ at[1] \in 1 .. depth
                                 /\ at[2] \in 1 .. frames[at[1]].i /\ at \in Places
<1>1. \A d, i : <<d, i>> \in Inside <=> d \in 1 .. depth /\ i \in 1 .. frames[d].i
  BY InsideIs
<1>2. \A at \in Inside : at = <<at[1], at[2]>>
  BY InsideIs
<1>3. \A at \in Inside : at[1] \in 1 .. depth /\ at[2] \in 1 .. frames[at[1]].i
  BY <1>1, <1>2
<1>4. ASSUME NEW at \in Inside PROVE at \in Places
  <2>1. at[1] \in Nat /\ at[2] \in Nat
    BY <1>3
  <2> QED BY <1>2, <2>1 DEF Places
<1> QED BY <1>1, <1>2, <1>3, <1>4

\* Nobody is inside the top frame deeper than its i.
LEMMA TopPlaces ==
    ASSUME Shape
    PROVE  /\ top.i \in Nat
           /\ \A at \in Inside : Deeper(at, <<depth, top.i + 1>>)
           /\ \A at \in Inside : at # <<depth, top.i>> => Deeper(at, <<depth, top.i>>)
           /\ \A a \in Inside : ~Deeper(a, a)
           /\ \A a, b \in Inside : ~(Deeper(a, b) /\ Deeper(b, a))
<1>1. top.i \in Nat /\ depth \in Nat /\ top = frames[depth]
  <2>1. top.i \in 0 .. Len(layers[top.mux]) /\ Len(layers[top.mux]) \in Nat
    BY TopFacts, LenProperties DEF Shape, MapTypes
  <2> QED BY <2>1, TopIsDeepest
<1>2. \A at \in Inside : /\ at = <<at[1], at[2]>> /\ at[1] \in Nat /\ at[2] \in Nat
                         /\ at[1] <= depth /\ (at[1] = depth => at[2] <= top.i)
  <2> TAKE at \in Inside
  <2>1. at = <<at[1], at[2]>> /\ at[1] \in 1 .. depth /\ at[2] \in 1 .. frames[at[1]].i
    BY InsidePlaces
  <2>2. at[1] \in Nat /\ at[2] \in Nat /\ at[1] <= depth
    BY <1>1, <2>1
  <2> QED BY <1>1, <2>1, <2>2
<1>3. \A at \in Inside : Deeper(at, <<depth, top.i + 1>>)
  BY <1>1, <1>2 DEF Deeper
<1>4. ASSUME NEW at \in Inside, at # <<depth, top.i>> PROVE Deeper(at, <<depth, top.i>>)
  <2>1. at[1] < depth \/ (at[1] = depth /\ at[2] < top.i)
    BY <1>1, <1>2, <1>4
  <2> QED BY <2>1 DEF Deeper
<1>5. \A a \in Inside : ~Deeper(a, a)
  BY <1>2 DEF Deeper
<1>6. \A a, b \in Inside : ~(Deeper(a, b) /\ Deeper(b, a))
  BY <1>2 DEF Deeper
<1> QED BY <1>1, <1>3, <1>4, <1>5, <1>6

\* Steps to layer i of the top frame.
LEMMA TopStepInside ==
    ASSUME Shape, NEW f, TopStep(f)
    PROVE  /\ \A d, i : <<d, i>> \in Inside' <=>
                           d \in 1 .. depth /\ i \in 1 .. (IF d = depth THEN f.i ELSE frames[d].i)
           /\ \A at \in Inside' : at = <<at[1], at[2]>>
           /\ \A at : at[1] \in 1 .. depth => LayerAt(at)' = LayerAt(at)
<1>1. /\ depth' = depth /\ frames'[depth] = f /\ layers' = layers
      /\ \A d \in 1 .. depth - 1 : frames'[d] = frames[d]
      /\ \A d \in 1 .. depth : frames'[d].mux = frames[d].mux
  BY TopStepFrames DEF Shape
<1>2. \A d \in 1 .. depth : frames'[d].i = IF d = depth THEN f.i ELSE frames[d].i
  BY <1>1, TopIsDeepest
<1>3. \A at : at \in Inside' <=> \E d \in 1 .. depth' : \E i \in 1 .. frames'[d].i : at = <<d, i>>
  BY DEF Inside
<1>4. \A d, i : <<d, i>> \in Inside' <=> d \in 1 .. depth /\ i \in 1 .. frames'[d].i
  BY <1>1, <1>3
<1>5. \A d, i : d \in 1 .. depth => (i \in 1 .. frames'[d].i <=>
                                       i \in 1 .. (IF d = depth THEN f.i ELSE frames[d].i))
  BY <1>2
<1>6. \A at \in Inside' : at = <<at[1], at[2]>>
  BY <1>3
<1>7. \A at : at[1] \in 1 .. depth => LayerAt(at)' = LayerAt(at)
  BY <1>1 DEF LayerAt
<1> QED BY <1>4, <1>5, <1>6, <1>7

LEMMA EntersInside ==
    ASSUME Shape, NEW f, TopStep(f), f.i = top.i + 1
    PROVE  /\ Inside' = Inside \cup {<<depth, top.i + 1>>}
           /\ \A at \in Inside' : LayerAt(at)' = LayerAt(at)
           /\ LayerAt(<<depth, top.i + 1>>) = layers[top.mux][top.i + 1]
<1>1. top.i \in Nat /\ depth \in 1 .. depth /\ top = frames[depth]
  BY TopPlaces, TopIsDeepest
<1>2. \A d, i : <<d, i>> \in Inside' <=> <<d, i>> \in Inside \/ (d = depth /\ i = top.i + 1)
  <2> TAKE d, i
  <2>1. i \in 1 .. top.i + 1 <=> i \in 1 .. top.i \/ i = top.i + 1
    BY <1>1
  <2>2. <<d, i>> \in Inside <=> d \in 1 .. depth /\ i \in 1 .. frames[d].i
    BY InsidePlaces
  <2>3. <<d, i>> \in Inside' <=> d \in 1 .. depth /\ i \in 1 .. (IF d = depth THEN f.i ELSE frames[d].i)
    BY TopStepInside
  <2> QED BY <1>1, <2>1, <2>2, <2>3
<1>3. /\ \A at \in Inside' : at = <<at[1], at[2]>>
      /\ \A at \in Inside : at = <<at[1], at[2]>>
  BY TopStepInside, InsidePlaces
<1>4. Inside' = Inside \cup {<<depth, top.i + 1>>}
  <2>1. ASSUME NEW at \in Inside' PROVE at \in Inside \/ at = <<depth, top.i + 1>>
    BY <1>2, <1>3
  <2>2. ASSUME NEW at \in Inside \cup {<<depth, top.i + 1>>} PROVE at \in Inside'
    <3>1. CASE at \in Inside
      BY <1>2, <1>3, <3>1
    <3>2. CASE at = <<depth, top.i + 1>>
      BY <1>2, <3>2
    <3> QED BY <3>1, <3>2
  <2> QED BY <2>1, <2>2
<1>5. \A at \in Inside' : at[1] \in 1 .. depth
  <2> TAKE at \in Inside'
  <2>1. at \in Inside \/ at[1] = depth
    BY <1>4
  <2> QED BY <1>1, <2>1, InsidePlaces
<1>6. \A at \in Inside' : LayerAt(at)' = LayerAt(at)
  BY <1>5, TopStepInside
<1>7. LayerAt(<<depth, top.i + 1>>) = layers[top.mux][top.i + 1]
  BY <1>1 DEF LayerAt
<1> QED BY <1>4, <1>6, <1>7

LEMMA LeavesInside ==
    ASSUME Shape, NEW f, TopStep(f), f.i = top.i - 1, top.i > 0
    PROVE  /\ Inside = Inside' \cup {<<depth, top.i>>} /\ <<depth, top.i>> \notin Inside'
           /\ \A at \in Inside : LayerAt(at)' = LayerAt(at)
           /\ LayerAt(<<depth, top.i>>) = layers[top.mux][top.i]
<1>1. top.i \in Nat /\ depth \in 1 .. depth /\ top = frames[depth]
  BY TopPlaces, TopIsDeepest
<1>2. \A d, i : <<d, i>> \in Inside <=> <<d, i>> \in Inside' \/ (d = depth /\ i = top.i)
  <2> TAKE d, i
  <2>1. i \in 1 .. top.i <=> i \in 1 .. top.i - 1 \/ i = top.i
    BY <1>1
  <2>2. <<d, i>> \in Inside <=> d \in 1 .. depth /\ i \in 1 .. frames[d].i
    BY InsidePlaces
  <2>3. <<d, i>> \in Inside' <=> d \in 1 .. depth /\ i \in 1 .. (IF d = depth THEN f.i ELSE frames[d].i)
    BY TopStepInside
  <2> QED BY <1>1, <2>1, <2>2, <2>3
<1>3. /\ \A at \in Inside' : at = <<at[1], at[2]>>
      /\ \A at \in Inside : at = <<at[1], at[2]>>
  BY TopStepInside, InsidePlaces
<1>4. Inside = Inside' \cup {<<depth, top.i>>}
  <2>1. ASSUME NEW at \in Inside PROVE at \in Inside' \/ at = <<depth, top.i>>
    BY <1>2, <1>3
  <2>2. ASSUME NEW at \in Inside' \cup {<<depth, top.i>>} PROVE at \in Inside
    <3>1. CASE at \in Inside'
      BY <1>2, <1>3, <3>1
    <3>2. CASE at = <<depth, top.i>>
      BY <1>2, <3>2
    <3> QED BY <3>1, <3>2
  <2> QED BY <2>1, <2>2
<1>5. <<depth, top.i>> \notin Inside'
  <2>1. top.i \notin 1 .. f.i
    BY <1>1
  <2> QED BY <2>1, TopStepInside
<1>6. \A at \in Inside : LayerAt(at)' = LayerAt(at)
  BY InsidePlaces, TopStepInside
<1>7. LayerAt(<<depth, top.i>>) = layers[top.mux][top.i]
  BY <1>1 DEF LayerAt
<1> QED BY <1>4, <1>5, <1>6, <1>7

\* Steps between muxes and of handlers.
InsideStays == Inside' = Inside /\ \A at \in Inside : LayerAt(at)' = LayerAt(at)

LEMMA StaysInside ==
    ASSUME Shape, CallHandler(Found.frame) \/ (\E e : CallMux(e)) \/ Pop \/ Stays
    PROVE  InsideStays
<1>1. ASSUME \A d, i : <<d, i>> \in Inside <=> d \in 1 .. depth' /\ i \in 1 .. frames'[d].i,
             \A d \in 1 .. depth : d \in 1 .. depth' => frames'[d].mux = frames[d].mux,
             layers' = layers
      PROVE  InsideStays
  <2>1. \A at : at \in Inside' <=> \E d \in 1 .. depth' : \E i \in 1 .. frames'[d].i : at = <<d, i>>
    BY DEF Inside
  <2>2. \A at \in Inside' : at = <<at[1], at[2]>>
    BY <2>1
  <2>3. \A at \in Inside : at = <<at[1], at[2]>> /\ at[1] \in 1 .. depth
    BY InsidePlaces
  <2>4. \A d, i : <<d, i>> \in Inside' <=> <<d, i>> \in Inside
    BY <1>1, <2>1
  <2>5. Inside' = Inside
    BY <2>2, <2>3, <2>4
  <2>6. \A at \in Inside : at[1] \in 1 .. depth'
    BY <1>1, <2>3
  <2> QED BY <1>1, <2>3, <2>5, <2>6 DEF InsideStays, LayerAt
<1>2. CASE CallHandler(Found.frame)
  <2> DEFINE f == Found.frame
  <2>1. TopStep(f) /\ f.i = top.i
    BY <1>2 DEF CallHandler, Plain
  <2>2. /\ depth' = depth /\ frames'[depth] = f /\ layers' = layers
        /\ \A d \in 1 .. depth - 1 : frames'[d] = frames[d]
        /\ \A d \in 1 .. depth : frames'[d].mux = frames[d].mux
    BY <2>1, TopStepFrames DEF Shape
  <2>3. \A d \in 1 .. depth : frames'[d].i = frames[d].i
    BY <2>1, <2>2, TopIsDeepest
  <2>4. \A d, i : <<d, i>> \in Inside <=> d \in 1 .. depth' /\ i \in 1 .. frames'[d].i
    BY <2>2, <2>3, InsidePlaces
  <2> QED BY <1>1, <2>2, <2>4
<1>3. ASSUME NEW e, CallMux(e) PROVE InsideStays
  <2>1. /\ depth' = depth + 1 /\ frames'[depth + 1] = e /\ e.i = 0 /\ layers' = layers
        /\ \A d \in 1 .. depth : frames'[d].i = frames[d].i /\ frames'[d].mux = frames[d].mux
    BY <1>3, CallMuxFrames DEF CallMux
  <2>2. \A d, i : <<d, i>> \in Inside <=> d \in 1 .. depth' /\ i \in 1 .. frames'[d].i
    <3> TAKE d, i
    <3>1. d \in 1 .. depth + 1 <=> d \in 1 .. depth \/ d = depth + 1
      BY TopIsDeepest
    <3>2. i \notin 1 .. 0
      OBVIOUS
    <3>3. d = depth + 1 => d \notin 1 .. depth
      BY TopIsDeepest
    <3>4. <<d, i>> \in Inside <=> d \in 1 .. depth /\ i \in 1 .. frames[d].i
      BY InsidePlaces
    <3> QED BY <2>1, <3>1, <3>2, <3>3, <3>4
  <2> QED BY <1>1, <2>1, <2>2
<1>4. CASE Pop
  <2>1. /\ depth' = depth - 1 /\ layers' = layers /\ top.i = 0 /\ top = frames[depth]
        /\ \A d \in 1 .. depth - 1 : frames'[d] = frames[d]
    BY <1>4, TopIsDeepest DEF Pop, config
  <2>2. \A d, i : <<d, i>> \in Inside <=> d \in 1 .. depth' /\ i \in 1 .. frames'[d].i
    <3> TAKE d, i
    <3>1. d \in 1 .. depth <=> d \in 1 .. depth - 1 \/ d = depth
      BY TopIsDeepest
    <3>2. i \notin 1 .. 0
      OBVIOUS
    <3>3. d = depth => d \notin 1 .. depth - 1
      BY TopIsDeepest
    <3>4. <<d, i>> \in Inside <=> d \in 1 .. depth /\ i \in 1 .. frames[d].i
      BY InsidePlaces
    <3> QED BY <2>1, <3>1, <3>2, <3>3, <3>4
  <2>3. \A d \in 1 .. depth : d \in 1 .. depth' => frames'[d].mux = frames[d].mux
    BY <2>1
  <2> QED BY <1>1, <2>1, <2>2, <2>3
<1>5. CASE Stays
  BY <1>5 DEF Stays, InsideStays, Inside, LayerAt, depth, config
<1> QED BY <1>2, <1>3, <1>4, <1>5

\* Which of the layers have writers is known from the layers.
LEMMA WrappingIs ==
    ASSUME method' = method
    PROVE  /\ \A at : at \in Wrapping <=> at \in Inside /\ Wraps(LayerAt(at))
           /\ \A at : at \in Wrapping' <=> at \in Inside' /\ Wraps(LayerAt(at)')
BY DEF Wrapping, Wraps

\* What a step does to the layers that have writers.
LEMMA EntersWrapping ==
    ASSUME Shape, NEW f, TopStep(f), f.i = top.i + 1
    PROVE  LET at == <<depth, top.i + 1>>
               l == layers[top.mux][top.i + 1]
           IN  /\ Wrapping' = IF Wraps(l) THEN Wrapping \cup {at} ELSE Wrapping
               /\ \A a \in Wrapping' : LayerAt(a)' = LayerAt(a)
               /\ LayerAt(at) = l
<1> DEFINE at == <<depth, top.i + 1>>
<1>1. /\ Inside' = Inside \cup {at} /\ \A a \in Inside' : LayerAt(a)' = LayerAt(a)
      /\ LayerAt(at) = layers[top.mux][top.i + 1]
  BY EntersInside
<1> HIDE DEF at
<1>2. method' = method
  BY TopStepFrames DEF Shape
<1>3. /\ \A a : a \in Wrapping <=> a \in Inside /\ Wraps(LayerAt(a))
      /\ \A a : a \in Wrapping' <=> a \in Inside' /\ Wraps(LayerAt(a)')
  BY <1>2, WrappingIs
<1>4. \A a : a \in Wrapping' <=> a \in Wrapping \/ (a = at /\ Wraps(LayerAt(at)))
  BY <1>1, <1>3
<1> QED BY <1>1, <1>3, <1>4 DEF at

LEMMA LeavesWrapping ==
    ASSUME Shape, NEW f, TopStep(f), f.i = top.i - 1, top.i > 0
    PROVE  LET at == <<depth, top.i>>
               l == layers[top.mux][top.i]
           IN  /\ Wrapping = IF Wraps(l) THEN Wrapping' \cup {at} ELSE Wrapping'
               /\ at \notin Wrapping'
               /\ \A a \in Wrapping : LayerAt(a)' = LayerAt(a)
<1> DEFINE at == <<depth, top.i>>
<1>1. /\ Inside = Inside' \cup {at} /\ at \notin Inside'
      /\ \A a \in Inside : LayerAt(a)' = LayerAt(a)
      /\ LayerAt(at) = layers[top.mux][top.i]
  BY LeavesInside
<1> HIDE DEF at
<1>2. method' = method
  BY TopStepFrames DEF Shape
<1>3. /\ \A a : a \in Wrapping <=> a \in Inside /\ Wraps(LayerAt(a))
      /\ \A a : a \in Wrapping' <=> a \in Inside' /\ Wraps(LayerAt(a)')
  BY <1>2, WrappingIs
<1>4. \A a : a \in Wrapping <=> a \in Wrapping' \/ (a = at /\ Wraps(LayerAt(at)))
  BY <1>1, <1>3
<1> QED BY <1>1, <1>3, <1>4 DEF at

LEMMA StaysWrapping ==
    ASSUME InsideStays, method' = method
    PROVE  Wrapping' = Wrapping /\ \A a \in Wrapping : LayerAt(a)' = LayerAt(a)
<1>1. /\ \A a : a \in Wrapping <=> a \in Inside /\ Wraps(LayerAt(a))
      /\ \A a : a \in Wrapping' <=> a \in Inside' /\ Wraps(LayerAt(a)')
  BY WrappingIs
<1>2. Inside' = Inside /\ \A a \in Inside : LayerAt(a)' = LayerAt(a)
  BY DEF InsideStays
<1> QED BY <1>1, <1>2

-----------------------------------------------------------------------------
(* What a step does to the writers.                                        *)

\* They are written to, and none on the way down.
Keeping ==
    /\ Wrapping' = Wrapping /\ \A at \in Wrapping : LayerAt(at)' = LayerAt(at)
    /\ Written(ws, ws', Valid)
    /\ ws' = ws \/ (mode \notin {"down", "overflow"} /\ mode' # "down")
    /\ mode' = "down" => mode = "down"

\* One is added on the way down, which nobody has written to.
Fresh(w) ==
    \/ w \in Proxies /\ IsProxy(w) /\ w.code = 0
    \/ w \in Options /\ ~IsProxy(w) /\ w.state = "init"
Adding(w) ==
    /\ Wrapping' = Wrapping \cup {w.at} /\ w.at \notin Wrapping
    /\ \A at \in Wrapping' : LayerAt(at)' = LayerAt(at)
    /\ \A at \in Wrapping : Deeper(at, w.at)
    /\ ws' = Append(ws, w) /\ Fresh(w) /\ (IsProxy(w) <=> LayerAt(w.at) = "Logger")
    /\ mode = "down" /\ mode' = "down" /\ UNCHANGED serving

\* The last one is removed on the way up, and perhaps written to first.
Removing(t) ==
    LET at == <<depth, top.i>> IN
    /\ Wrapping = Wrapping' \cup {at} /\ at \notin Wrapping'
    /\ \A a \in Wrapping : LayerAt(a)' = LayerAt(a)
    /\ \A a \in Wrapping : a # at => Deeper(a, at)
    /\ Written(ws, t, Valid) /\ ws' = Front(t)
    /\ mode \in {"up", "panic"} /\ mode' = mode /\ UNCHANGED serving

\* Not to write is to write nothing.
LEMMA NotWritten == ASSUME WriterTypes, NEW valid PROVE Written(ws, ws, valid)
BY DEF WriterTypes, Written, SameWriters

\* ValidMethods are known for where the writers stand.
LEMMA ValidFacts ==
    ASSUME Shape, WriterTypes, Wrapped
    PROVE  /\ \A k \in 2 .. Len(ws) : ws[k].at[1] \in 1 .. depth
           /\ \A d \in 1 .. depth : Valid[d] = MethodsOf(frames[d])
           /\ \A d \in 1 .. depth : MethodsOf(frames[d]) \subseteq Methods \cup {"none"}
           /\ \A k \in 2 .. Len(ws) : Valid[ws[k].at[1]] \subseteq Methods \cup {"none"}
<1>1. \A k \in 2 .. Len(ws) : ws[k].at[1] \in 1 .. depth
  <2> TAKE k \in 2 .. Len(ws)
  <2>1. ws[k].at \in Inside
    BY DEF Wrapped, Wrapping
  <2> QED BY <2>1, InsidePlaces
<1>2. \A d \in 1 .. depth : Valid[d] = MethodsOf(frames[d])
  BY DEF Valid, MethodsOf
<1>3. ASSUME NEW d \in 1 .. depth PROVE MethodsOf(frames[d]) \subseteq Methods \cup {"none"}
  <2>1. CASE frames[d].env = 0
    BY <2>1 DEF MethodsOf, NoMethods
  <2>2. CASE frames[d].env # 0
    <3>1. frames[d].env \in 1 .. MaxDepth
      BY <2>2, TopFacts DEF Shape, FrameTypes
    <3>2. envs[frames[d].env].methods \in (SUBSET Methods) \cup {NoMethods}
      BY <3>1 DEF Shape, MapTypes
    <3> QED BY <2>2, <3>2 DEF MethodsOf, NoMethods
  <2> QED BY <2>1, <2>2
<1> QED BY <1>1, <1>2, <1>3

\* A layer that has a writer makes it when it is entered.
LEMMA EnterLoggerWriters ==
    ASSUME Shape, WriterTypes, EnterLogger PROVE \E w : Adding(w)
<1> DEFINE at == <<depth, top.i + 1>>
           i == Interfaces(ws, Len(ws))
           kind == IF since18 THEN FancyOrBasic(i) ELSE FancyFlushOrBasic(i)
           w == [kind |-> kind, code |-> 0, bytes |-> 0, at |-> at]
<1>1. /\ ws' = Append(ws, w) /\ mode = "down" /\ mode' = "down" /\ UNCHANGED serving
      /\ layers[top.mux][top.i + 1] = "Logger" /\ Top(Next1(top))
  BY DEF EnterLogger, Enter, WrapWriter
<1>2. PICK f : EnterPlain(f) /\ f.i = top.i + 1
  BY EnterPlainStep DEF EnterPlain
<1>3. /\ Wrapping' = Wrapping \cup {at} /\ \A a \in Wrapping' : LayerAt(a)' = LayerAt(a)
      /\ LayerAt(at) = "Logger"
  BY <1>1, <1>2, EntersWrapping DEF EnterPlain, Plain, Wraps
<1>4. \A a \in Wrapping : Deeper(a, at)
  BY TopPlaces DEF Wrapping
<1>5. at \notin Wrapping
  <2>1. ~Deeper(at, at)
    BY TopPlaces, TopIsDeepest DEF Deeper
  <2> QED BY <1>4, <2>1
<1>6. at \in Places
  BY TopPlaces, TopIsDeepest DEF Places
<1>7. kind \in {"fancy", "fancy18", "flush", "basic"}
  BY DEF FancyOrBasic, FancyFlushOrBasic
<1> HIDE DEF kind, at
<1>8. w \in Proxies /\ IsProxy(w) /\ w.code = 0 /\ w.at = at
  BY <1>6, <1>7 DEF Proxies, IsProxy
<1> HIDE DEF w
<1>9. Adding(w)
  BY <1>1, <1>3, <1>4, <1>5, <1>8 DEF Adding, Fresh
<1> QED BY <1>9

LEMMA EnterOptionsWriters ==
    ASSUME Shape, WriterTypes, EnterAutomaticOptions, method = "OPTIONS" PROVE \E w : Adding(w)
<1> DEFINE at == <<depth, top.i + 1>>
           w == [kind |-> "options", state |-> "init", at |-> at]
<1>1. /\ ws' = Append(ws, w) /\ mode = "down" /\ mode' = "down" /\ UNCHANGED serving
      /\ layers[top.mux][top.i + 1] = "AutomaticOptions" /\ Top(Next1(top))
  BY DEF EnterAutomaticOptions, Enter, OptionsProxy
<1>2. PICK f : EnterPlain(f) /\ f.i = top.i + 1
  BY EnterPlainStep DEF EnterPlain
<1>3. /\ Wrapping' = Wrapping \cup {at} /\ \A a \in Wrapping' : LayerAt(a)' = LayerAt(a)
      /\ LayerAt(at) = "AutomaticOptions"
  BY <1>1, <1>2, EntersWrapping DEF EnterPlain, Plain, Wraps
<1>4. \A a \in Wrapping : Deeper(a, at)
  BY TopPlaces DEF Wrapping
<1>5. at \notin Wrapping
  <2>1. ~Deeper(at, at)
    BY TopPlaces, TopIsDeepest DEF Deeper
  <2> QED BY <1>4, <2>1
<1>6. at \in Places
  BY TopPlaces, TopIsDeepest DEF Places
<1> HIDE DEF at
<1>8. w \in Options /\ ~IsProxy(w) /\ w.state = "init" /\ w.at = at
  BY <1>6 DEF Options, IsProxy
<1> HIDE DEF w
<1>9. Adding(w)
  BY <1>1, <1>3, <1>4, <1>5, <1>8 DEF Adding, Fresh
<1> QED BY <1>9

\* Other layers make none.
LEMMA EnterOtherWriters ==
    ASSUME Shape, WriterTypes, EnterLayer, ws' = ws,
           \A l : Enter(l) => ~Wraps(l)
    PROVE  Keeping
<1>1. mode = "down" /\ mode' = "down" /\ Enter(layers[top.mux][top.i + 1])
  BY DEF EnterLayer, EnterEnvMaker, EnterRecoverer, EnterLogger, EnterAutomaticOptions, EnterRouter,
         EnterSubRouter, Enter
<1>2. PICK f : TopStep(f) /\ f.i = top.i + 1
  BY EnterPlainStep, EnterRoutingStep, EnterStrippingStep DEF EnterLayer, EnterPlain, EnterRouting,
     EnterStripping, Plain
<1>3. /\ Wrapping' = Wrapping /\ \A a \in Wrapping' : LayerAt(a)' = LayerAt(a)
  BY <1>1, <1>2, EntersWrapping
<1> QED BY <1>1, <1>3, NotWritten DEF Keeping

LEMMA EnterWriters ==
    ASSUME Shape, WriterTypes, EnterLayer PROVE Keeping \/ \E w : Adding(w)
<1>1. \A l, k : Enter(l) /\ Enter(k) => l = k
  BY DEF Enter
<1>2. CASE EnterLogger
  BY <1>2, EnterLoggerWriters
<1>3. CASE EnterAutomaticOptions
  <2>1. CASE method = "OPTIONS"
    BY <1>3, <2>1, EnterOptionsWriters
  <2>2. CASE method # "OPTIONS"
    <3>1. ws' = ws /\ Enter("AutomaticOptions")
      BY <1>3, <2>2 DEF EnterAutomaticOptions
    <3>2. \A l : Enter(l) => ~Wraps(l)
      BY <1>1, <2>2, <3>1 DEF Wraps
    <3> QED BY <3>1, <3>2, EnterOtherWriters
  <2> QED BY <2>1, <2>2
<1>4. CASE ~EnterLogger /\ ~EnterAutomaticOptions
  <2>1. ws' = ws /\ \E l \in {"EnvInit", "URLQuery", "RequestID", "Recoverer", "Router", "SubRouter"} : Enter(l)
    BY <1>4 DEF EnterLayer, EnterEnvMaker, EnterRecoverer, EnterRouter, EnterSubRouter
  <2>2. \A l : Enter(l) => ~Wraps(l)
    BY <1>1, <2>1 DEF Wraps
  <2> QED BY <2>1, <2>2, EnterOtherWriters
<1> QED BY <1>2, <1>3, <1>4

\* Handlers write.
LEMMA HandlerWriters ==
    ASSUME Shape, WriterTypes, Wrapped, Handler PROVE Keeping
<1>1. /\ Stays /\ mode = "handler" /\ mode' # "down"
  BY DEF Handler, CallWriteHeader, CallWrite, CallFlush, CallReadFrom, Call,
         HandlerReturn, HandlerPanic, ServeNotFound, Stays, Modes
<1>2. Wrapping' = Wrapping /\ \A a \in Wrapping : LayerAt(a)' = LayerAt(a)
  BY <1>1, StaysInside, StaysWrapping DEF Stays, config
<1>3. /\ Writers(ws)
      /\ \A k \in 2 .. Len(ws) : Valid[ws[k].at[1]] \subseteq Methods \cup {"none"}
  BY ValidFacts DEF WriterTypes
<1>4. Written(ws, ws', Valid)
  <2>1. ASSUME NEW code \in {200, 404}, CallWriteHeader(code) PROVE Written(ws, ws', Valid)
    <3>1. ws' = WriteHeader(ws, Len(ws), code, Valid) /\ code \in Nat
      BY <2>1 DEF CallWriteHeader, Call
    <3>2. LET t == WriteHeader(ws, Len(ws), code, Valid) IN
           /\ Writers(t) /\ SameWriters(ws, t) /\ t[1].flushed = ws[1].flushed
           /\ Swallowers(t) \subseteq Swallowers(ws) \cup Telltale(Valid, ws)
           /\ TrueCodes(ws) => TrueCodes(t)
      BY <1>3, <3>1, WriteHeaderFacts
    <3> QED BY <3>1, <3>2 DEF Written
  <2>2. CASE CallWrite
    BY <1>3, <2>2, WriteFacts DEF CallWrite, Call
  <2>3. CASE CallFlush
    BY <1>3, <2>3, FlushFacts DEF CallFlush, Call
  <2>4. CASE CallReadFrom
    BY <1>3, <2>4, ReadFromFacts DEF CallReadFrom, Call
  <2>5. CASE HandlerReturn \/ HandlerPanic
    BY <2>5, NotWritten DEF HandlerReturn, HandlerPanic
  <2>6. CASE ServeNotFound
    <3>1. 404 \in Nat
      OBVIOUS
    <3> QED BY <1>3, <2>6, <3>1, ErrorFacts DEF ServeNotFound
  <2> QED BY <2>1, <2>2, <2>3, <2>4, <2>5, <2>6 DEF Handler
<1> QED BY <1>1, <1>2, <1>4 DEF Keeping

\* The mux's own steps leave the writers alone.
LEMMA MuxWriters ==
    ASSUME Shape, WriterTypes, Routing \/ LeaveMux PROVE Keeping
<1>1. /\ ws' = ws /\ method' = method /\ (mode' = "down" => mode = "down")
  BY DEF Routing, RouteToHandler, RouteToMux, RouteTooDeep, Route, LeaveMux, config
<1>2. CallHandler(Found.frame) \/ (\E e : CallMux(e)) \/ Pop \/ Stays
  <2>1. CASE RouteToHandler
    BY <2>1, CallHandlerStep
  <2>2. CASE RouteToMux
    BY <2>2, CallMuxStep
  <2>3. CASE RouteTooDeep
    BY <2>3 DEF RouteTooDeep, Route, Stays, Modes
  <2>4. CASE LeaveMux
    <3>1. CASE depth > 1
      BY <2>4, <3>1, PopStep
    <3>2. CASE ~(depth > 1)
      BY <2>4, <3>2 DEF LeaveMux, Stays, Modes
    <3> QED BY <3>1, <3>2
  <2> QED BY <2>1, <2>2, <2>3, <2>4 DEF Routing
<1>3. Wrapping' = Wrapping /\ \A a \in Wrapping : LayerAt(a)' = LayerAt(a)
  BY <1>1, <1>2, StaysInside, StaysWrapping
<1> QED BY <1>1, <1>3, NotWritten DEF Keeping

\* The layer that is left on the way up.
LEMMA LeavesLayer ==
    ASSUME Shape, NEW l, Leave(l), LeaveLayer
    PROVE  /\ mode \in {"up", "panic"} /\ l = layers[top.mux][top.i] /\ mode' # "down" /\ top.i > 0
           /\ \E f : TopStep(f) /\ f.i = top.i - 1
<1>1. mode \in {"up", "panic"} /\ l = layers[top.mux][top.i] /\ top.i > 0
  BY DEF Leave
<1>2. mode' # "down"
  BY <1>1 DEF LeaveLayer, LeaveOther, LeaveAutomaticOptions, LeaveLogger, LeaveRecoverer, LeaveSubRouter
<1>3. \E f : TopStep(f) /\ f.i = top.i - 1
  BY LeavePlainStep, LeaveStrippingStep DEF LeaveLayer, LeavePlain, LeaveStripping, Plain
<1> QED BY <1>1, <1>2, <1>3

\* Layers that have made no writer keep them.
LEMMA LeaveOtherWriters ==
    ASSUME Shape, NEW l, Leave(l), LeaveLayer, ~Wraps(l), Written(ws, ws', Valid) PROVE Keeping
<1>1. PICK f : TopStep(f) /\ f.i = top.i - 1 /\ top.i > 0 /\ l = layers[top.mux][top.i]
  BY LeavesLayer
<1>2. Wrapping' = Wrapping /\ \A a \in Wrapping : LayerAt(a)' = LayerAt(a)
  BY <1>1, LeavesWrapping
<1> QED BY <1>2, LeavesLayer DEF Keeping

\* A writer is removed when its layer is left.
LEMMA LeaveWrapperWriters ==
    ASSUME Shape, NEW l, Leave(l), LeaveLayer, Wraps(l), mode' = mode, UNCHANGED serving,
           NEW t, Written(ws, t, Valid), ws' = Front(t)
    PROVE  Removing(t)
<1>1. PICK f : TopStep(f) /\ f.i = top.i - 1 /\ top.i > 0 /\ l = layers[top.mux][top.i]
  BY LeavesLayer
<1>2. /\ Wrapping = Wrapping' \cup {<<depth, top.i>>} /\ <<depth, top.i>> \notin Wrapping'
      /\ \A a \in Wrapping : LayerAt(a)' = LayerAt(a)
  BY <1>1, LeavesWrapping
<1>3. \A a \in Wrapping : a # <<depth, top.i>> => Deeper(a, <<depth, top.i>>)
  BY TopPlaces DEF Wrapping
<1> QED BY <1>2, <1>3, LeavesLayer DEF Removing

LEMMA LeaveWriters ==
    ASSUME Shape, WriterTypes, Wrapped, LeaveLayer PROVE Keeping \/ \E t : Removing(t)
<1>1. Written(ws, ws, Valid)
  BY NotWritten
<1>2. /\ Writers(ws)
      /\ \A k \in 2 .. Len(ws) : Valid[ws[k].at[1]] \subseteq Methods \cup {"none"}
  BY ValidFacts DEF WriterTypes
<1>3. CASE (\E l \in {"EnvInit", "URLQuery", "RequestID", "Router"} : LeaveOther(l)) \/ LeaveSubRouter
  <2>1. ws' = ws /\ \E l \in {"EnvInit", "URLQuery", "RequestID", "Router", "SubRouter"} : Leave(l)
    BY <1>3 DEF LeaveOther, LeaveSubRouter
  <2> QED BY <1>1, <2>1, LeaveOtherWriters DEF Wraps
<1>4. CASE LeaveAutomaticOptions
  <2>1. Leave("AutomaticOptions") /\ UNCHANGED <<mode, serving>>
    BY <1>4 DEF LeaveAutomaticOptions
  <2>2. CASE method = "OPTIONS"
    BY <1>1, <1>4, <2>1, <2>2, LeaveWrapperWriters DEF LeaveAutomaticOptions, Wraps
  <2>3. CASE method # "OPTIONS"
    BY <1>1, <1>4, <2>1, <2>3, LeaveOtherWriters DEF LeaveAutomaticOptions, Wraps
  <2> QED BY <2>2, <2>3
<1>5. CASE LeaveLogger
  <2> DEFINE t == IF mode = "up" /\ Last(ws).code = 0 THEN WriteHeader(ws, Len(ws), 200, Valid) ELSE ws
  <2>1. Leave("Logger") /\ UNCHANGED <<mode, serving>> /\ ws' = Front(t)
    BY <1>5 DEF LeaveLogger
  <2>2. 200 \in Nat
    OBVIOUS
  <2>3. LET h == WriteHeader(ws, Len(ws), 200, Valid) IN
        /\ Writers(h) /\ SameWriters(ws, h) /\ h[1].flushed = ws[1].flushed
        /\ Swallowers(h) \subseteq Swallowers(ws) \cup Telltale(Valid, ws)
        /\ TrueCodes(ws) => TrueCodes(h)
    BY <1>2, <2>2, WriteHeaderFacts
  <2>4. Written(ws, t, Valid)
    BY <1>1, <2>3 DEF Written
  <2> HIDE DEF t
  <2> QED BY <1>5, <2>1, <2>4, LeaveWrapperWriters DEF Wraps
<1>6. CASE LeaveRecoverer
  <2>1. 500 \in Nat
    OBVIOUS
  <2>2. Written(ws, Error(ws, 500, Valid), Valid)
    BY <1>2, <2>1, ErrorFacts
  <2>3. Written(ws, ws', Valid) /\ Leave("Recoverer")
    BY <1>1, <1>6, <2>2 DEF LeaveRecoverer
  <2> QED BY <2>3, LeaveOtherWriters DEF Wraps
<1> QED BY <1>3, <1>4, <1>5, <1>6 DEF LeaveLayer

\* Every step does one of these to the writers.
LEMMA WriterSteps ==
    ASSUME Shape, WriterTypes, Wrapped, Next
    PROVE  Keeping \/ (\E w : Adding(w)) \/ (\E t : Removing(t))
BY EnterWriters, MuxWriters, HandlerWriters, LeaveWriters DEF Next

-----------------------------------------------------------------------------
(* The writers, step by step.                                              *)

\* The writer added is the last.
LEMMA AddingFacts ==
    ASSUME WriterTypes, NEW w, Adding(w)
    PROVE  /\ WriterTypes' /\ Len(ws') = Len(ws) + 1 /\ ws'[Len(ws) + 1] = w /\ w \in Proxies \cup Options
           /\ Len(ws) \in Nat /\ Len(ws) >= 1 /\ \A k \in 1 .. Len(ws) : ws'[k] = ws[k]
<1>1. ws \in Seq(AllWriters) /\ Len(ws) \in Nat /\ Len(ws) >= 1
  BY WriterFacts DEF WriterTypes, Writers
<1>2. w \in Proxies \cup Options /\ w \in AllWriters
  BY DEF Adding, Fresh, AllWriters
<1>3. /\ ws' \in Seq(AllWriters) /\ Len(ws') = Len(ws) + 1 /\ ws'[Len(ws) + 1] = w
      /\ \A k \in 1 .. Len(ws) : ws'[k] = ws[k]
  BY <1>1, <1>2, AppendProperties DEF Adding
<1>4. \A k \in 2 .. Len(ws') : ws'[k] \in Proxies \cup Options
  <2> TAKE k \in 2 .. Len(ws')
  <2>1. (k \in 2 .. Len(ws) /\ k \in 1 .. Len(ws)) \/ k = Len(ws) + 1
    BY <1>1, <1>3
  <2> QED BY <1>2, <1>3, <2>1 DEF WriterTypes, Writers
<1>5. ws'[1] \in Servers1
  BY <1>1, <1>3 DEF WriterTypes, Writers
<1>6. WriterTypes'
  <2>1. Len(ws') >= 1
    BY <1>1, <1>3
  <2> QED BY <1>3, <1>4, <1>5, <2>1 DEF WriterTypes, Writers, AllWriters
<1> QED BY <1>1, <1>2, <1>3, <1>6

\* The writer removed was the last, and is the one of the layer that is left.
LEMMA RemovingFacts ==
    ASSUME Shape, WriterTypes, Wrapped, NEW t, Removing(t)
    PROVE  /\ WriterTypes' /\ Len(ws) >= 2 /\ Len(ws') = Len(ws) - 1 /\ Len(ws) \in Nat
           /\ ws[Len(ws)].at = <<depth, top.i>>
           /\ \A k \in 1 .. Len(ws') : ws'[k] = t[k]
           /\ Len(t) = Len(ws)
<1> DEFINE at == <<depth, top.i>>
           n == Len(ws)
<1>1. /\ Writers(t) /\ SameWriters(ws, t) /\ ws' = Front(t) /\ n \in Nat /\ Len(t) = n
      /\ t \in Seq(AllWriters) /\ DOMAIN t = 1 .. n
  BY WriterFacts DEF Removing, Written, SameWriters, WriterTypes
<1>2. PICK j \in 2 .. n : ws[j].at = at
  BY DEF Wrapped, Removing
<1>3. n >= 2
  BY <1>1, <1>2
<1>4. ws[n].at = at
  <2> SUFFICES ASSUME n # j PROVE FALSE
    BY <1>2
  <2>1. j < n /\ n \in 2 .. n
    <3> HIDE DEF n
    <3> QED BY <1>1, <1>2, <1>3
  <2>2. Deeper(at, ws[n].at) /\ ws[n].at \in Wrapping /\ at \in Wrapping
    BY <1>2, <2>1 DEF Wrapped, Removing
  <2>3. ws[n].at \in Inside /\ at \in Inside
    BY <2>2 DEF Wrapping
  <2>4. ws[n].at = at \/ Deeper(ws[n].at, at)
    BY <2>2 DEF Removing
  <2> QED BY <2>2, <2>3, <2>4, TopPlaces
<1>5. ws' = SubSeq(t, 1, n - 1)
  BY <1>1 DEF Front
<1>6. /\ ws' \in Seq(AllWriters) /\ Len(ws') = n - 1 /\ \A k \in 1 .. n - 1 : ws'[k] = t[k]
  <2>1. n - 1 \in 0 .. Len(t) /\ 1 \in 1 .. n
    BY <1>1, <1>3
  <2> HIDE DEF n
  <2> QED BY <1>1, <1>3, <1>5, <2>1, SubSeqProperties
<1>7. WriterTypes'
  <2>1. Len(ws') >= 1 /\ 1 \in 1 .. n - 1 /\ \A k \in 2 .. n - 1 : k \in 2 .. n /\ k \in 1 .. n - 1
    BY <1>1, <1>3, <1>6
  <2>2. ws'[1] \in Servers1 /\ \A k \in 2 .. n - 1 : ws'[k] \in Proxies \cup Options
    BY <1>1, <1>6, <2>1 DEF Writers
  <2> QED BY <1>6, <2>1, <2>2 DEF WriterTypes, Writers, AllWriters
<1> QED BY <1>1, <1>3, <1>4, <1>6, <1>7

\* Writers that are only written to stay where they stand.
LEMMA KeepingFacts ==
    ASSUME WriterTypes, Keeping
    PROVE  /\ WriterTypes' /\ Len(ws') = Len(ws) /\ SameWriters(ws, ws')
           /\ \A k \in 2 .. Len(ws) : ws'[k].at = ws[k].at /\ (IsProxy(ws'[k]) <=> IsProxy(ws[k]))
BY DEF Keeping, Written, WriterTypes, SameWriters

LEMMA WrappedKept ==
    ASSUME Shape, WriterTypes, Wrapped, Next
    PROVE  WriterTypes' /\ Wrapped'
<1>1. Len(ws) \in Nat
  BY WriterFacts DEF WriterTypes
<1>2. CASE Keeping
  <2>1. /\ WriterTypes' /\ Len(ws') = Len(ws)
        /\ \A k \in 2 .. Len(ws) : ws'[k].at = ws[k].at /\ (IsProxy(ws'[k]) <=> IsProxy(ws[k]))
    BY <1>2, KeepingFacts
  <2>2. Wrapping' = Wrapping /\ \A at \in Wrapping : LayerAt(at)' = LayerAt(at)
    BY <1>2 DEF Keeping
  <2>3. \A k \in 2 .. Len(ws') : ws'[k].at \in Wrapping'
    BY <2>1, <2>2 DEF Wrapped
  <2>4. \A at \in Wrapping' : \E k \in 2 .. Len(ws') : ws'[k].at = at
    BY <2>1, <2>2 DEF Wrapped
  <2>5. \A k \in 2 .. Len(ws') : IsProxy(ws'[k]) <=> LayerAt(ws[k].at)' = "Logger"
    <3> TAKE k \in 2 .. Len(ws')
    <3>1. k \in 2 .. Len(ws) /\ ws[k].at \in Wrapping /\ ws'[k].at = ws[k].at
      BY <2>1 DEF Wrapped
    <3>2. IsProxy(ws'[k]) <=> LayerAt(ws[k].at) = "Logger"
      BY <2>1, <3>1 DEF Wrapped
    <3> QED BY <2>2, <3>1, <3>2 DEF LayerAt
  <2>6. \A j, k \in 2 .. Len(ws') : j < k => Deeper(ws'[j].at, ws'[k].at)
    BY <2>1 DEF Wrapped
  <2> QED BY <2>1, <2>3, <2>4, <2>5, <2>6 DEF Wrapped
<1>3. ASSUME NEW w, Adding(w) PROVE WriterTypes' /\ Wrapped'
  <2> DEFINE n == Len(ws) + 1
  <2>1. /\ WriterTypes' /\ Len(ws') = n /\ ws'[n] = w /\ n \in 2 .. n /\ n \in Nat
        /\ \A k \in 1 .. Len(ws) : ws'[k] = ws[k]
    BY <1>1, <1>3, AddingFacts
  <2>2. /\ \A k \in 2 .. n : k = n \/ (k \in 2 .. Len(ws) /\ k \in 1 .. Len(ws) /\ k < n)
        /\ \A k \in 2 .. Len(ws) : k \in 2 .. n
        /\ \A j, k \in 2 .. n : j < k => j \in 2 .. Len(ws) /\ j # n
    BY <1>1
  <2> HIDE DEF n
  <2>3. /\ Wrapping' = Wrapping \cup {w.at} /\ \A at \in Wrapping' : LayerAt(at)' = LayerAt(at)
        /\ \A at \in Wrapping : Deeper(at, w.at)
        /\ IsProxy(w) <=> LayerAt(w.at) = "Logger"
    BY <1>3 DEF Adding
  <2>4. \A k \in 2 .. n : ws'[k].at \in Wrapping'
    BY <2>1, <2>2, <2>3 DEF Wrapped
  <2>5. \A at \in Wrapping' : \E k \in 2 .. n : ws'[k].at = at
    <3> TAKE at \in Wrapping'
    <3>1. CASE at = w.at
      BY <2>1, <3>1
    <3>2. CASE at # w.at
      <4>1. PICK k \in 2 .. Len(ws) : ws[k].at = at
        BY <2>3, <3>2 DEF Wrapped
      <4>2. k \in 2 .. n /\ k \in 1 .. Len(ws)
        BY <1>1, <2>2
      <4> QED BY <2>1, <4>1, <4>2
    <3> QED BY <3>1, <3>2
  <2>6. \A k \in 2 .. n : IsProxy(ws'[k]) <=> LayerAt(ws[k].at)' = "Logger"
    <3> TAKE k \in 2 .. n
    <3>1. IsProxy(ws'[k]) <=> LayerAt(ws'[k].at) = "Logger"
      BY <2>1, <2>2, <2>3 DEF Wrapped
    <3> QED BY <2>3, <2>4, <3>1 DEF LayerAt
  <2>7. ASSUME NEW j \in 2 .. n, NEW k \in 2 .. n, j < k PROVE Deeper(ws'[j].at, ws'[k].at)
    <3>1. j \in 2 .. Len(ws) /\ j \in 1 .. Len(ws) /\ ws'[j] = ws[j] /\ ws[j].at \in Wrapping
      BY <2>1, <2>2, <2>7 DEF Wrapped
    <3>2. CASE k = n
      BY <2>1, <2>3, <3>1, <3>2
    <3>3. CASE k # n
      <4>1. k \in 2 .. Len(ws) /\ ws'[k] = ws[k]
        BY <2>1, <2>2, <3>3
      <4> QED BY <2>7, <3>1, <4>1 DEF Wrapped
    <3> QED BY <3>2, <3>3
  <2> QED BY <2>1, <2>4, <2>5, <2>6, <2>7 DEF Wrapped
<1>4. ASSUME NEW t, Removing(t) PROVE WriterTypes' /\ Wrapped'
  <2> DEFINE n == Len(ws)
             at == <<depth, top.i>>
  <2>1. /\ WriterTypes' /\ n >= 2 /\ Len(ws') = n - 1 /\ ws[n].at = at
        /\ \A k \in 1 .. n - 1 : ws'[k] = t[k]
    BY <1>4, RemovingFacts
  <2>2. /\ SameWriters(ws, t) /\ Wrapping = Wrapping' \cup {at} /\ at \notin Wrapping'
        /\ \A a \in Wrapping : LayerAt(a)' = LayerAt(a)
        /\ \A a \in Wrapping : a # at => Deeper(a, at)
    BY <1>4 DEF Removing, Written
  <2>3. \A k \in 2 .. n - 1 : k \in 2 .. n /\ k \in 1 .. n - 1 /\ k < n /\ n \in 2 .. n
    BY <1>1, <2>1
  <2>9. n \in 2 .. n /\ \A k \in 2 .. n : k = n \/ k \in 2 .. n - 1
    BY <1>1, <2>1
  <2>4. \A k \in 2 .. n - 1 : ws'[k].at = ws[k].at /\ (IsProxy(ws'[k]) <=> IsProxy(ws[k]))
    BY <2>1, <2>2, <2>3 DEF SameWriters
  <2> HIDE DEF n, at
  <2>5. \A k \in 2 .. n - 1 : ws'[k].at \in Wrapping'
    <3> TAKE k \in 2 .. n - 1
    <3>1. k \in 2 .. n /\ k < n /\ n \in 2 .. n
      BY <2>3
    <3>2. Deeper(ws[k].at, ws[n].at) /\ ws[k].at \in Wrapping /\ ws[n].at \in Wrapping
      BY <3>1 DEF Wrapped, n
    <3>3. ws[k].at # at
      BY <2>1, <3>2, TopPlaces DEF Wrapping
    <3> QED BY <2>2, <2>4, <3>2, <3>3
  <2>6. ASSUME NEW a \in Wrapping' PROVE \E k \in 2 .. n - 1 : ws'[k].at = a
    <3>1. a \in Wrapping /\ a # at
      BY <2>2
    <3>2. PICK k \in 2 .. n : ws[k].at = a
      BY <3>1 DEF Wrapped, n
    <3>3. k # n
      BY <2>1, <3>1, <3>2
    <3> QED BY <2>4, <2>9, <3>2, <3>3
  <2>7. \A k \in 2 .. n - 1 : IsProxy(ws'[k]) <=> LayerAt(ws[k].at)' = "Logger"
    <3> TAKE k \in 2 .. n - 1
    <3>1. k \in 2 .. n
      BY <2>3
    <3>2. IsProxy(ws'[k]) <=> LayerAt(ws'[k].at) = "Logger"
      BY <2>4, <3>1 DEF Wrapped, n
    <3> QED BY <2>2, <2>5, <3>2 DEF LayerAt
  <2>8. \A j, k \in 2 .. n - 1 : j < k => Deeper(ws'[j].at, ws'[k].at)
    BY <2>3, <2>4 DEF Wrapped, n
  <2> QED BY <2>1, <2>5, <2>6, <2>7, <2>8 DEF Wrapped
<1> QED BY <1>2, <1>3, <1>4, WriterSteps

\* Nothing is written on the way down.
LEMMA SilenceKept ==
    ASSUME Shape, WriterTypes, Wrapped, Silent, Next
    PROVE  Silent'
<1> SUFFICES ASSUME mode' = "down"
             PROVE  /\ ws'[1].code = 0 /\ ~ws'[1].flushed
                    /\ \A k \in 2 .. Len(ws') :
                          IF IsProxy(ws'[k]) THEN ws'[k].code = 0 ELSE ws'[k].state = "init"
  BY DEF Silent, IsProxy
<1>1. CASE Keeping
  <2>1. mode = "down" /\ ws' = ws
    BY <1>1 DEF Keeping
  <2> QED BY <2>1 DEF Silent
<1>2. ASSUME NEW w, Adding(w)
      PROVE  /\ ws'[1].code = 0 /\ ~ws'[1].flushed
             /\ \A k \in 2 .. Len(ws') :
                   IF IsProxy(ws'[k]) THEN ws'[k].code = 0 ELSE ws'[k].state = "init"
  <2>1. /\ Len(ws') = Len(ws) + 1 /\ ws'[Len(ws) + 1] = w /\ Len(ws) \in Nat /\ Len(ws) >= 1
        /\ \A k \in 1 .. Len(ws) : ws'[k] = ws[k]
    BY <1>2, AddingFacts
  <2>2. ws'[1] = ws[1] /\ ws[1].code = 0 /\ ~ws[1].flushed
    BY <1>2, <2>1 DEF Silent, Adding
  <2>3. ASSUME NEW k \in 2 .. Len(ws')
        PROVE  IF IsProxy(ws'[k]) THEN ws'[k].code = 0 ELSE ws'[k].state = "init"
    <3>1. k = Len(ws) + 1 \/ (k \in 2 .. Len(ws) /\ k \in 1 .. Len(ws))
      BY <2>1
    <3>2. CASE k = Len(ws) + 1
      BY <1>2, <2>1, <3>2 DEF Adding, Fresh
    <3>3. CASE k \in 2 .. Len(ws) /\ k \in 1 .. Len(ws)
      BY <1>2, <2>1, <3>3 DEF Silent, Adding
    <3> QED BY <3>1, <3>2, <3>3
  <2> QED BY <2>2, <2>3
<1>3. ASSUME NEW t, Removing(t) PROVE FALSE
  BY <1>3 DEF Removing
<1> QED BY <1>1, <1>2, <1>3, WriterSteps

\* StatusTrue is about the writers alone.
LEMMA StatusIs ==
    /\ StatusTrue <=> TrueCodes(ws)
    /\ StatusTrue' <=> TrueCodes(ws')
BY DEF StatusTrue, TrueCodes, Clear

\* The first writers of those of whom all tell the truth do so.
LEMMA StatusKept ==
    ASSUME Shape, WriterTypes, Wrapped, Silent, StatusTrue, Next
    PROVE  StatusTrue'
<1>1. CASE Keeping
  BY <1>1, StatusIs DEF Keeping, Written
<1>2. ASSUME NEW w, Adding(w) PROVE TrueCodes(ws')
  <2>1. /\ ws'[1].code = 0
        /\ \A k \in 2 .. Len(ws') : IsProxy(ws'[k]) => ws'[k].code = 0
    BY <1>2, SilenceKept DEF Silent, Adding
  <2>2. WriterTypes'
    BY <1>2, AddingFacts
  <2>3. Writers(ws')
    BY <2>2 DEF WriterTypes, Writers
  <2>4. \A k \in DOMAIN ws' : IsProxy(ws'[k]) => k \in 2 .. Len(ws')
    BY <2>3, WriterFacts
  <2> QED BY <2>1, <2>4 DEF TrueCodes, Clear
<1>3. ASSUME NEW t, Removing(t) PROVE TrueCodes(ws')
  <2>1. /\ WriterTypes' /\ Len(ws) >= 2 /\ Len(ws') = Len(ws) - 1 /\ Len(ws) \in Nat
        /\ \A k \in 1 .. Len(ws') : ws'[k] = t[k]
        /\ Len(t) = Len(ws)
    BY <1>3, RemovingFacts
  <2>2. Writers(t) /\ TrueCodes(t)
    BY <1>3, StatusIs DEF Removing, Written
  <2>3. Writers(ws')
    BY <2>1 DEF WriterTypes, Writers
  <2>4. DOMAIN t = 1 .. Len(t) /\ DOMAIN ws' = 1 .. Len(ws')
    BY <2>2, <2>3, WriterFacts
  <2>5. ASSUME NEW k \in DOMAIN ws', Clear(ws', k), ~ws'[1].flushed PROVE ws'[k].code = ws'[1].code
    <3>1. /\ k \in DOMAIN t /\ 1 \in 1 .. Len(ws') /\ k \in 1 .. Len(ws')
          /\ \A j \in 1 .. k : j \in 1 .. Len(ws')
      BY <2>1, <2>4, <2>5
    <3>2. ws'[k] = t[k] /\ ws'[1] = t[1] /\ \A j \in 1 .. k : ws'[j] = t[j]
      BY <2>1, <3>1
    <3>3. Clear(t, k)
      BY <2>5, <3>2 DEF Clear
    <3> QED BY <2>2, <2>5, <3>1, <3>2, <3>3 DEF TrueCodes
  <2> QED BY <2>5 DEF TrueCodes
<1> QED BY <1>1, <1>2, <1>3, StatusIs, WriterSteps

\* HandlersHeard is about the writers and who is served.
LEMMA HeardIs ==
    ASSUME WriterTypes
    PROVE  HandlersHeard <=> (StripsFirst /\ serving # "notFound" => Swallowers(ws) = {})
<1>1. /\ ws[1].kind = "server" /\ 1 \in DOMAIN ws
      /\ \A k \in DOMAIN ws : k # 1 => k \in 2 .. Len(ws)
      /\ \A k \in 2 .. Len(ws) : k \in DOMAIN ws
  BY WriterFacts DEF WriterTypes
<1>2. \A k : k \in Swallowers(ws) <=> k \in DOMAIN ws /\ ws[k].kind = "options" /\ ws[k].state = "proxying"
  BY <1>1 DEF Swallowers
<1> QED BY <1>2 DEF HandlersHeard

\* Whoever is served is so until the next, or until a panic is recovered from.
LEMMA ServingSteps ==
    ASSUME Shape, mode \in Modes, Next
    PROVE  \/ serving' = serving
           \/ mode = "down" /\ mode' # "down"
           \/ mode = "panic"
<1>1. CASE EnterLayer
  BY <1>1 DEF EnterLayer, EnterEnvMaker, EnterRecoverer, EnterLogger, EnterAutomaticOptions, EnterRouter,
              EnterSubRouter, Enter
<1>2. CASE Routing
  BY <1>2 DEF Routing, RouteToHandler, RouteToMux, RouteTooDeep, Route
<1>3. CASE Handler
  BY <1>3 DEF Handler, CallWriteHeader, CallWrite, CallFlush, CallReadFrom, Call,
              HandlerReturn, HandlerPanic, ServeNotFound
<1>4. CASE LeaveLayer
  BY <1>4 DEF LeaveLayer, LeaveOther, LeaveAutomaticOptions, LeaveLogger, LeaveRecoverer, LeaveSubRouter
<1>5. CASE LeaveMux
  BY <1>5 DEF LeaveMux
<1> QED BY <1>1, <1>2, <1>3, <1>4, <1>5 DEF Next

\* Whoever takes a step runs, and changes no middleware.
LEMMA Running == ASSUME Next PROVE UNCHANGED config /\ mode \in {"down", "handler", "up", "panic"}
<1>1. CASE EnterLayer
  BY <1>1 DEF EnterLayer, EnterEnvMaker, EnterRecoverer, EnterLogger, EnterAutomaticOptions, EnterRouter,
              EnterSubRouter, Enter
<1>2. CASE Routing
  BY <1>2 DEF Routing, RouteToHandler, RouteToMux, RouteTooDeep, Route
<1>3. CASE Handler
  BY <1>3 DEF Handler, CallWriteHeader, CallWrite, CallFlush, CallReadFrom, Call,
              HandlerReturn, HandlerPanic, ServeNotFound
<1>4. CASE LeaveLayer
  BY <1>4 DEF LeaveLayer, LeaveOther, LeaveAutomaticOptions, LeaveLogger, LeaveRecoverer, LeaveSubRouter,
              Leave
<1>5. CASE LeaveMux
  BY <1>5 DEF LeaveMux
<1> QED BY <1>1, <1>2, <1>3, <1>4, <1>5 DEF Next

\* Nobody swallows on the way down, nor is there anything to swallow for a handler.
LEMMA NoneSwallow ==
    ASSUME WriterTypes, Silent, mode = "down" PROVE Swallowers(ws) = {}
<1> SUFFICES ASSUME NEW k \in 2 .. Len(ws), ws[k].kind = "options", ws[k].state = "proxying" PROVE FALSE
  BY DEF Swallowers
<1>1. ws[k].state = "init"
  BY DEF Silent, IsProxy
<1> QED BY <1>1

LEMMA NoneTold ==
    ASSUME Shape, WriterTypes, Wrapped, Telling, StripsFirst, mode \notin {"down", "overflow"},
           serving # "notFound"
    PROVE  Telltale(Valid, ws) = {}
<1> SUFFICES ASSUME NEW k \in 2 .. Len(ws), Valid[ws[k].at[1]] # NoMethods PROVE FALSE
  BY DEF Telltale
<1>1. Valid[ws[k].at[1]] = MethodsOf(frames[ws[k].at[1]]) /\ ws[k].at[1] \in 1 .. depth
  BY ValidFacts
<1> QED BY <1>1 DEF Telling

LEMMA HeardKept ==
    ASSUME Shape, mode \in Modes, WriterTypes, Wrapped, Silent, Telling, HandlersHeard, Next
    PROVE  HandlersHeard'
<1>1. WriterTypes' /\ Silent' /\ Writers(ws')
  BY WrappedKept, SilenceKept DEF WriterTypes, Writers
<1>2. layers' = layers
  BY Running DEF config
<1>3. ASSUME StripsFirst, serving' # "notFound" PROVE Swallowers(ws') = {}
  <2>1. CASE mode' = "down"
    <3> SUFFICES ASSUME NEW k \in 2 .. Len(ws'), ws'[k].kind = "options", ws'[k].state = "proxying" PROVE FALSE
      BY DEF Swallowers
    <3> QED BY <1>1, <2>1 DEF Silent, IsProxy
  <2>2. CASE mode' # "down" /\ mode \in {"down", "overflow"}
    <3>1. ws' = ws
      BY <2>2, WriterSteps DEF Keeping, Adding, Removing
    <3>2. CASE mode = "down"
      BY <3>1, <3>2, NoneSwallow
    <3>3. mode # "overflow"
      BY Running
    <3> QED BY <2>2, <3>2, <3>3
  <2>3. CASE mode' # "down" /\ mode \notin {"down", "overflow"}
    <3>1. serving # "notFound"
      BY <1>3, <2>3, ServingSteps DEF Telling
    <3>2. Telltale(Valid, ws) = {} /\ Swallowers(ws) = {}
      BY <1>3, <2>3, <3>1, NoneTold, HeardIs
    <3>3. CASE Keeping
      BY <3>2, <3>3 DEF Keeping, Written
    <3>4. ASSUME NEW t, Removing(t) PROVE Swallowers(ws') = {}
      <4>1. /\ Len(ws) >= 2 /\ Len(ws') = Len(ws) - 1 /\ Len(ws) \in Nat /\ Len(t) = Len(ws)
            /\ \A k \in 1 .. Len(ws') : ws'[k] = t[k]
        BY <3>4, RemovingFacts
      <4>2. Swallowers(t) = {}
        BY <3>2, <3>4 DEF Removing, Written
      <4>3. \A k \in 2 .. Len(ws') : k \in 2 .. Len(t) /\ ws'[k] = t[k]
        BY <4>1
      <4> QED BY <4>2, <4>3 DEF Swallowers
    <3>5. \A w : ~Adding(w)
      BY <2>3 DEF Adding
    <3> QED BY <3>3, <3>4, <3>5, WriterSteps
  <2> QED BY <2>1, <2>2, <2>3
<1>4. \A k \in DOMAIN ws' : ws'[k].kind = "options" => k \in 2 .. Len(ws')
  BY <1>1, WriterFacts
<1> QED BY <1>2, <1>3, <1>4 DEF HandlersHeard, StripsFirst, Swallowers

-----------------------------------------------------------------------------
(* What routing has found and told, step by step.                          *)

\* How the request goes on.
LEMMA ModeSteps ==
    ASSUME Next
    PROVE  /\ mode = "down" => mode' \in {"down", "handler", "overflow"}
           /\ mode # "down" => mode' \notin {"down", "overflow"}
           /\ mode' = "panic" => serving' = serving /\ (mode = "panic" \/ serving # "notFound")
<1>1. CASE EnterLayer
  BY <1>1 DEF EnterLayer, EnterEnvMaker, EnterRecoverer, EnterLogger, EnterAutomaticOptions, EnterRouter,
              EnterSubRouter, Enter
<1>2. CASE Routing
  BY <1>2 DEF Routing, RouteToHandler, RouteToMux, RouteTooDeep, Route
<1>3. CASE Handler
  BY <1>3 DEF Handler, CallWriteHeader, CallWrite, CallFlush, CallReadFrom, Call,
              HandlerReturn, HandlerPanic, ServeNotFound
<1>4. CASE LeaveLayer
  BY <1>4 DEF LeaveLayer, LeaveOther, LeaveAutomaticOptions, LeaveLogger, LeaveRecoverer, LeaveSubRouter,
              Leave
<1>5. CASE LeaveMux
  BY <1>5 DEF LeaveMux
<1> QED BY <1>1, <1>2, <1>3, <1>4, <1>5 DEF Next

\* A mux finds what it found while the path is the same.
LEMMA TopChosen ==
    ASSUME UNCHANGED <<path, method>>, top'.mux = top.mux
    PROVE  Chosen(top.mux)' = Chosen(top.mux) /\ Takes(top.mux)' = Takes(top.mux)
BY DEF Chosen, TakenAt, Takes, Hits, Matches

\* The layers of the top frame that have been entered.
LEMMA EntersNext ==
    ASSUME Shape, NEW f, TopStep(f), f.i = top.i + 1, NEW l
    PROVE  Entered(depth, l)' <=> Entered(depth, l) \/ layers[top.mux][top.i + 1] = l
<1>1. /\ depth' = depth /\ frames'[depth] = f /\ layers' = layers /\ f.mux = top.mux /\ top = frames[depth]
  BY TopStepFrames, TopIsDeepest DEF Shape, TopStep, Grown
<1>2. top.i \in Nat
  BY TopPlaces
<1>3. \A j : j \in 1 .. f.i <=> j \in 1 .. top.i \/ j = top.i + 1
  BY <1>2
<1>4. Entered(depth, l)' <=> \E j \in 1 .. f.i : layers[top.mux][j] = l
  BY <1>1 DEF Entered
<1> QED BY <1>1, <1>3, <1>4 DEF Entered

\* No SubRouter is entered after a Router.
LEMMA StripsBefore ==
    ASSUME Shape, StripsFirst, NEW f, EnterStripping(f)
    PROVE  ~Entered(depth, "Router") /\ ~Entered(depth, "Router")'
<1>1. /\ TopStep(f) /\ f.i = top.i + 1 /\ layers[top.mux][top.i + 1] = "SubRouter"
      /\ top.i < Len(layers[top.mux])
  BY DEF EnterStripping
<1>2. /\ top = frames[depth] /\ top.i \in Nat /\ top.mux \in Muxes
      /\ Len(layers[top.mux]) \in Nat /\ DOMAIN layers[top.mux] = 1 .. Len(layers[top.mux])
  BY TopFacts, TopPlaces, TopIsDeepest, LenProperties DEF Shape, MapTypes
<1>3. ~Entered(depth, "Router")
  <2> SUFFICES ASSUME NEW j \in 1 .. top.i, layers[top.mux][j] = "Router" PROVE FALSE
    BY <1>2 DEF Entered
  <2>1. j \in DOMAIN layers[top.mux] /\ top.i + 1 \in DOMAIN layers[top.mux]
    BY <1>1, <1>2
  <2>2. top.i + 1 < j
    BY <1>1, <1>2, <2>1 DEF StripsFirst
  <2> QED BY <1>2, <2>2
<1> QED BY <1>1, <1>3, EntersNext

\* A mux that makes itself an Env finds no methods in it.
LEMMA SameMethods ==
    ASSUME Shape, NEW f, Grown(f), \A d \in 1 .. MaxDepth : envs'[d].methods = envs[d].methods
    PROVE  MethodsOf(f)' = MethodsOf(top)
<1>1. /\ depth \in 1 .. MaxDepth /\ top.env \in 0 .. depth /\ MaxDepth \in Nat /\ depth \in Nat
      /\ top.env = 0 => envs[depth] = EmptyEnv
  BY TopFacts DEF Shape
<1>2. EmptyEnv.methods = NoMethods
  BY DEF EmptyEnv
<1>3. f.env = top.env \/ (top.env = 0 /\ f.env = depth)
  BY DEF Grown
<1> QED BY <1>1, <1>2, <1>3 DEF MethodsOf

LEMMA RoutedKept == ASSUME Shape, mode \in Modes, RoutedHere, Next PROVE RoutedHere'
<1> SUFFICES ASSUME StripsFirst, mode' = "down", Entered(depth, "Router")' PROVE MatchOf(top)' = Chosen(top.mux)'
  <2>1. StripsFirst' <=> StripsFirst
    BY Running DEF StripsFirst, config
  <2> QED BY <2>1 DEF RoutedHere
<1>1. ASSUME NEW f, EnterPlain(f) PROVE MatchOf(top)' = Chosen(top.mux)'
  <2>1. /\ TopStep(f) /\ f.i = top.i + 1 /\ layers[top.mux][top.i + 1] # "Router" /\ mode = "down"
        /\ Grown(f) /\ envs' = envs /\ path' = path /\ top' = f /\ f.mux = top.mux /\ method' = method
    BY <1>1, TopStepFrames DEF EnterPlain, Plain, TopStep, Grown, maps, Shape
  <2>2. Entered(depth, "Router")
    BY <2>1, EntersNext
  <2>3. MatchOf(f)' = MatchOf(top)
    BY <2>1, SameMatch
  <2>4. MatchOf(top)' = MatchOf(f)'
    BY <2>1 DEF MatchOf
  <2> QED BY <2>1, <2>2, <2>3, <2>4, TopChosen DEF RoutedHere
<1>2. ASSUME NEW f, EnterRouting(f) PROVE MatchOf(top)' = Chosen(top.mux)'
  <2>1. /\ f.env # 0 /\ envs'[f.env].match = Chosen(top.mux) /\ path' = path /\ top' = f /\ f.mux = top.mux
        /\ method' = method
    BY <1>2, TopStepFrames DEF EnterRouting, Plain, TopStep, Grown, Shape
  <2>2. MatchOf(top)' = Chosen(top.mux)
    BY <2>1 DEF MatchOf
  <2> QED BY <2>1, <2>2, TopChosen
<1>3. ASSUME NEW f, EnterStripping(f) PROVE FALSE
  BY <1>3, StripsBefore
<1>4. ASSUME NEW e, CallMux(e) PROVE FALSE
  <2>1. depth' = depth + 1 /\ frames'[depth + 1] = e /\ e.i = 0
    BY <1>4 DEF CallMux
  <2> QED BY <2>1 DEF Entered
<1> QED BY <1>1, <1>2, <1>3, <1>4, Steps DEF CallHandler, LeavePlain, LeaveStripping, Pop, Stays

\* A mux that has found something is not told of methods.
LEMMA FoundMethods ==
    ASSUME Shape, RoutedHere, Telling, StripsFirst, mode = "down", Found.match.handler # "notFound"
    PROVE  MethodsOf(top) = NoMethods /\ Found.envs = envs /\ Found.frame.env = top.env
<1>1. top.mux \in Muxes
  BY TopFacts DEF Shape
<1>2. CASE MatchOf(top) # NoMatch
  <2>1. Found.match = MatchOf(top) /\ Found.frame = top /\ Found.envs = envs
    BY <1>2, FoundFacts
  <2>2. ASSUME MethodsOf(top) # NoMethods PROVE FALSE
    <3>1. Entered(depth, "Router") /\ Takes(top.mux) = {}
      BY <2>2 DEF Telling
    <3>2. MatchOf(top) = NotFound
      BY <1>1, <3>1, ChosenFacts DEF RoutedHere
    <3> QED BY <2>1, <3>2, NoRoutes
  <2> QED BY <2>1, <2>2
<1>3. CASE MatchOf(top) = NoMatch
  <2>1. Found.match = Chosen(top.mux) /\ Found.frame = Routed /\ Found.envs = ToldEnvs
    BY <1>3, FoundFacts
  <2>2. Takes(top.mux) # {}
    BY <1>1, <2>1, ChosenFacts, NoRoutes
  <2>3. ~Tells(top.mux)
    BY <2>2 DEF Tells
  <2>4. ToldEnvs = envs /\ Routed.env = top.env
    BY <2>3, GetMatchFacts DEF Shape
  <2> QED BY <2>1, <2>2, <2>4 DEF Telling
<1> QED BY <1>2, <1>3

LEMMA ToldKept ==
    ASSUME Shape, mode \in Modes, RoutedHere, Telling, StripsFirst, Next, mode' = "down",
           MethodsOf(top)' # NoMethods
    PROVE  Entered(depth, "Router")' /\ Takes(top.mux)' = {}
<1>1. ASSUME NEW f, EnterPlain(f) PROVE Entered(depth, "Router")' /\ Takes(top.mux)' = {}
  <2>1. /\ TopStep(f) /\ f.i = top.i + 1 /\ mode = "down"
        /\ Grown(f) /\ envs' = envs /\ path' = path /\ top' = f /\ f.mux = top.mux /\ method' = method
    BY <1>1, TopStepFrames DEF EnterPlain, Plain, TopStep, Grown, maps, Shape
  <2>2. MethodsOf(f)' = MethodsOf(top)
    BY <2>1, SameMethods
  <2>3. MethodsOf(top) # NoMethods
    BY <2>1, <2>2 DEF MethodsOf
  <2> QED BY <2>1, <2>3, TopChosen, EntersNext DEF Telling
<1>2. ASSUME NEW f, EnterRouting(f) PROVE Entered(depth, "Router")' /\ Takes(top.mux)' = {}
  <2>1. /\ TopStep(f) /\ f.i = top.i + 1 /\ mode = "down" /\ layers[top.mux][top.i + 1] = "Router"
        /\ Grown(f) /\ path' = path /\ top' = f /\ f.mux = top.mux /\ method' = method
        /\ f.env # 0 /\ envs'[f.env].methods = ToldEnvs[f.env].methods
        /\ Tells(top.mux) \/ f.env = (IF top.env = 0 THEN depth ELSE top.env)
    BY <1>2, TopStepFrames DEF EnterRouting, Plain, TopStep, Grown, Shape
  <2>2. Entered(depth, "Router")'
    BY <2>1, EntersNext
  <2>3. Takes(top.mux) = {}
    <3>1. CASE Tells(top.mux)
      BY <3>1 DEF Tells
    <3>2. CASE ~Tells(top.mux)
      <4>1. ToldEnvs = envs /\ f.env = (IF top.env = 0 THEN depth ELSE top.env)
        BY <2>1, <3>2, GetMatchFacts DEF Shape
      <4>2. envs[f.env].methods # NoMethods
        BY <2>1, <4>1 DEF MethodsOf
      <4>3. top.env # 0
        BY <4>1, <4>2, TopFacts DEF EmptyEnv, Shape
      <4>4. MethodsOf(top) # NoMethods
        BY <4>1, <4>2, <4>3 DEF MethodsOf
      <4> QED BY <2>1, <4>4 DEF Telling
    <3> QED BY <3>1, <3>2
  <2> QED BY <2>1, <2>2, <2>3, TopChosen
<1>3. ASSUME NEW f, EnterStripping(f) PROVE FALSE
  <2>1. /\ TopStep(f) /\ SameMaps(f) /\ mode = "down" /\ top' = f
        /\ (envs' = envs \/ Matching(NoMatch))
    BY <1>3, TopStepFrames DEF EnterStripping, Shape
  <2>2. ~Entered(depth, "Router")
    BY <1>3, StripsBefore
  <2>3. MethodsOf(top) = NoMethods
    BY <2>1, <2>2 DEF Telling
  <2>4. MethodsOf(f)' = MethodsOf(top)
    BY <2>1 DEF SameMaps, Matching, MethodsOf
  <2> QED BY <2>1, <2>3, <2>4 DEF MethodsOf
<1>4. ASSUME NEW e, CallMux(e) PROVE FALSE
  <2>1. /\ Found.match.handler # "notFound" /\ mode = "down" /\ top' = e /\ e.env = Found.frame.env
        /\ \A d \in 1 .. MaxDepth : d # depth + 1 => envs'[d] = Found.envs[d]
    BY <1>4, MountFacts, NoRoutes DEF CallMux
  <2>2. MethodsOf(top) = NoMethods /\ Found.envs = envs /\ e.env = top.env
    BY <2>1, FoundMethods
  <2>3. top.env = 0 \/ (top.env \in 1 .. MaxDepth /\ top.env # depth + 1)
    BY TopFacts DEF Shape
  <2> QED BY <2>1, <2>2, <2>3 DEF MethodsOf
<1> QED BY <1>1, <1>2, <1>3, <1>4, Steps DEF CallHandler, LeavePlain, LeaveStripping, Pop, Stays

\* The way down ends at a handler, or nowhere.
LEMMA CallsHandler ==
    ASSUME Shape, Next, mode = "down", mode' \notin {"down", "overflow"} PROVE CallHandler(Found.frame)
<1>1. RouteToHandler
  BY DEF Next, EnterLayer, EnterEnvMaker, EnterRecoverer, EnterLogger, EnterAutomaticOptions, EnterRouter,
         EnterSubRouter, Enter, Routing, RouteToMux, RouteTooDeep, Handler, CallWriteHeader, CallWrite,
         CallFlush, CallReadFrom, Call, HandlerReturn, HandlerPanic, ServeNotFound, LeaveLayer, LeaveOther,
         LeaveAutomaticOptions, LeaveLogger, LeaveRecoverer, LeaveSubRouter, Leave, LeaveMux
<1> QED BY <1>1, CallHandlerStep

LEMMA UntoldKept ==
    ASSUME Shape, mode \in Modes, RoutedHere, Telling, StripsFirst, Next,
           mode' \notin {"down", "overflow"}, serving' # "notFound", NEW d \in 1 .. depth'
    PROVE  MethodsOf(frames[d])' = NoMethods
<1>1. CASE CallHandler(Found.frame)
  <2>0. PICK f : f = Found.frame
    OBVIOUS
  <2>1. /\ TopStep(f) /\ Grown(f) /\ mode = "down" /\ serving' = Found.match.handler
        /\ top' = f /\ envs' = Found.envs
    BY <1>1, <2>0, TopStepFrames DEF CallHandler, Plain, TopStep, Grown, Shape
  <2>2. MethodsOf(top) = NoMethods /\ envs' = envs
    BY <2>1, FoundMethods
  <2>3. MethodsOf(f)' = NoMethods
    BY <2>1, <2>2, SameMethods
  <2>4. MethodsOf(top)' = NoMethods
    BY <2>1, <2>3 DEF MethodsOf
  <2>5. Shape'
    BY ShapeKept
  <2>6. frames'[d].env # 0 => top'.env = frames'[d].env
    <3>1. depth' = depth /\ frames'[depth] = f
      BY <2>1, TopStepFrames DEF Shape
    <3>2. d <= depth' /\ depth' \in 1 .. depth'
      BY <3>1, TopIsDeepest
    <3>3. frames'[d].env # 0 => frames'[depth'].env = frames'[d].env
      BY <2>5, <3>2 DEF Shape, Shared
    <3> QED BY <2>1, <3>1, <3>3
  <2> QED BY <2>4, <2>6 DEF MethodsOf
<1>2. ASSUME mode # "down",
             d \in 1 .. depth /\ frames'[d].env = frames[d].env,
             \A c \in 1 .. MaxDepth : envs'[c].methods = envs[c].methods
      PROVE  MethodsOf(frames[d])' = NoMethods
  <2>1. serving # "notFound" /\ mode \notin {"down", "overflow"}
    BY <1>2, ServingSteps, Running DEF Telling
  <2>2. MethodsOf(frames[d]) = NoMethods
    BY <1>2, <2>1 DEF Telling
  <2>3. frames[d].env = 0 \/ frames[d].env \in 1 .. MaxDepth
    BY <1>2, TopFacts DEF Shape, FrameTypes
  <2> QED BY <1>2, <2>2, <2>3 DEF MethodsOf
<1>3. ASSUME NEW f, LeavePlain(f) \/ LeaveStripping(f) PROVE MethodsOf(frames[d])' = NoMethods
  <2>1. TopStep(f) /\ SameMaps(f) /\ mode # "down" /\ (envs' = envs \/ \E match : Matching(match))
    BY <1>3 DEF LeavePlain, LeaveStripping, Plain
  <2>2. /\ depth' = depth /\ frames'[depth] = f /\ top = frames[depth]
        /\ \A c \in 1 .. depth - 1 : frames'[c] = frames[c]
    BY <2>1, TopStepFrames, TopIsDeepest DEF Shape
  <2>3. frames'[d].env = frames[d].env
    <3>1. CASE d = depth
      BY <2>1, <2>2, <3>1 DEF SameMaps
    <3>2. CASE d # depth
      BY <2>2, <3>2, TopIsDeepest
    <3> QED BY <3>1, <3>2
  <2>4. \A c \in 1 .. MaxDepth : envs'[c].methods = envs[c].methods
    BY <2>1 DEF TopStep, SameMaps, Matching
  <2> QED BY <1>2, <2>1, <2>2, <2>3, <2>4
<1>4. CASE Pop
  <2>1. /\ mode # "down" /\ depth' = depth - 1 /\ envs' = envs
        /\ \A c \in 1 .. depth - 1 : frames'[c] = frames[c]
    BY <1>4 DEF Pop, maps
  <2>2. d \in 1 .. depth /\ frames'[d] = frames[d]
    BY <2>1, TopIsDeepest
  <2> QED BY <1>2, <2>1, <2>2
<1>5. CASE Stays /\ mode # "down"
  <2>1. frames' = frames /\ envs' = envs /\ depth' = depth
    BY <1>5 DEF Stays, maps, depth
  <2> QED BY <1>2, <1>5, <2>1
<1> QED BY <1>1, <1>3, <1>4, <1>5, Steps, CallsHandler DEF EnterPlain, EnterRouting, EnterStripping, CallMux

LEMMA TellingKept == ASSUME Shape, mode \in Modes, RoutedHere, Telling, Next PROVE Telling'
<1> SUFFICES ASSUME StripsFirst
             PROVE  /\ mode' = "down" /\ MethodsOf(top)' # NoMethods =>
                          Entered(depth, "Router")' /\ Takes(top.mux)' = {}
                    /\ mode' \notin {"down", "overflow"} /\ serving' # "notFound" =>
                          \A d \in 1 .. depth' : MethodsOf(frames[d])' = NoMethods
                    /\ mode' = "panic" => serving' # "notFound"
  <2>1. StripsFirst' <=> StripsFirst
    BY Running DEF StripsFirst, config
  <2> QED BY <2>1 DEF Telling
<1>1. mode' = "panic" => serving' # "notFound"
  BY ModeSteps DEF Telling
<1> QED BY <1>1, ToldKept, UntoldKept

-----------------------------------------------------------------------------
(* The suffixes, step by step.                                             *)

\* Calls stay as they were made.
LEMMA TopStepCalls ==
    ASSUME Shape, NEW f, TopStep(f)
    PROVE  /\ Stars' <=> Stars
           /\ MixedMounts' <=> MixedMounts
<1>1. depth' = depth /\ \A d \in 1 .. depth : frames'[d].called = frames[d].called
  BY TopStepFrames DEF Shape
<1>2. Stars' <=> Stars
  BY <1>1 DEF Stars
<1>3. MixedMounts' <=> MixedMounts
  <2>1. MixedMounts' <=>
           \E d, e \in 1 .. depth :
               d < e /\ frames'[d].called.tail = "*" /\ frames'[e].called.tail = "_"
    BY <1>1, Zenon DEF MixedMounts
  <2>2. ASSUME NEW d \in 1 .. depth, NEW e \in 1 .. depth
        PROVE  (d < e /\ frames'[d].called.tail = "*" /\ frames'[e].called.tail = "_")
               <=> (d < e /\ frames[d].called.tail = "*" /\ frames[e].called.tail = "_")
    <3>1. frames'[d].called = frames[d].called /\ frames'[e].called = frames[e].called
      BY <1>1
    <3> QED BY <3>1, Zenon
  <2> QED BY <2>1, <2>2, Zenon DEF MixedMounts
<1> QED BY <1>2, <1>3

\* A step on the way down that leaves path, match and suffix alone.
LEMMA NothingTied ==
    ASSUME Shape, MatchBound, StarKnown, SuffixRight, OuterBare,
           NEW f, TopStep(f), f.i = top.i + 1, layers[top.mux][top.i + 1] # "Router",
           f.saved = top.saved, f.params = top.params, params' = params, envs' = envs, path' = path
    PROVE  (MatchBound /\ StarKnown /\ SuffixRight /\ OuterBare)'
<1>1. depth' = depth /\ top' = f /\ f.called = top.called /\ Grown(f)
  BY TopStepFrames DEF Shape, TopStep, Grown
<1>2. Entered(depth, "Router")' <=> Entered(depth, "Router")
  BY EntersNext
<1>3. MatchOf(top)' = MatchOf(top)
  <2>1. MatchOf(f)' = MatchOf(top)
    BY <1>1, SameMatch
  <2> QED BY <1>1, <2>1 DEF MatchOf
<1>4. (Stars' <=> Stars) /\ (MixedMounts' <=> MixedMounts)
  BY TopStepCalls
<1>5. Suffix(top)' = Suffix(top)
  BY <1>1 DEF Suffix
<1>6. MatchBound'
  BY <1>1, <1>3 DEF MatchBound, Rest
<1>7. StarKnown'
  BY <1>1, <1>2, <1>3, <1>4 DEF StarKnown
<1>8. SuffixRight'
  BY <1>1, <1>2, <1>4, <1>5 DEF SuffixRight
<1>9. OuterBare'
  BY <1>1, <1>2, <1>5 DEF OuterBare
<1> QED BY <1>6, <1>7, <1>8, <1>9

\* What is in the maps of a mux that has none yet is nothing.
LEMMA NoParams ==
    ASSUME Shape, NEW f, Grown(f), f.params # 0, params[f.params].star # NoPath
    PROVE  top.params # 0 /\ f.params = top.params
<1>1. top.params = 0 => params[depth].star = NoPath
  BY TopFacts DEF Shape, EmptyParams
<1> QED BY <1>1 DEF Grown

\* A Router binds the suffix of its match.
LEMMA RoutingTied ==
    ASSUME Shape, RoutedHere, StripsFirst, Suffixed, MatchBound, StarKnown, SuffixRight, OuterBare,
           NEW f, EnterRouting(f)
    PROVE  (MatchBound /\ StarKnown /\ SuffixRight /\ OuterBare)'
<1> DEFINE r == Chosen(top.mux)
<1>1. /\ TopStep(f) /\ Grown(f) /\ f.i = top.i + 1 /\ layers[top.mux][top.i + 1] = "Router"
      /\ f.saved = top.saved /\ f.params = Routed.params /\ params' = BoundParams /\ path' = path
      /\ f.env # 0 /\ envs'[f.env].match = r /\ f.called = top.called /\ mode = "down"
      /\ depth' = depth /\ top' = f /\ f.params \in 0 .. MaxDepth
  <2>1. f.params \in 0 .. MaxDepth
    BY TopFacts DEF EnterRouting, Plain, TopStep, Grown, Shape
  <2> QED BY <2>1, TopStepFrames DEF EnterRouting, Plain, TopStep, Grown, Shape
<1>2. Entered(depth, "Router")'
  BY <1>1, EntersNext
<1>3. MatchOf(top)' = r
  BY <1>1 DEF MatchOf
<1>4. (Stars' <=> Stars) /\ (MixedMounts' <=> MixedMounts)
  BY <1>1, TopStepCalls
<1>5. MatchBound'
  <2>1. r \in Mounts => r.tail # "exact"
    BY DEF Suffixed
  <2> QED BY <1>1, <1>3, <2>1, BoundFacts DEF MatchBound, Rest
<1>6. StarKnown'
  <2> SUFFICES ASSUME f.params # 0, params'[f.params].star # NoPath, r.tail # "*" PROVE Stars
    BY <1>1, <1>2, <1>3, <1>4 DEF StarKnown
  <2>0. \A d \in 1 .. MaxDepth : BoundParams[d].star = params[d].star
    BY BoundFacts, Zenon
  <2>1. params[f.params].star # NoPath
    <3>1. f.params \in 1 .. MaxDepth
      BY <1>1, RequestAssumption
    <3> QED BY <1>1, <2>0, <3>1
  <2>2. top.params # 0 /\ f.params = top.params
    BY <1>1, <2>1, NoParams
  <2>3. Stars \/ (Entered(depth, "Router") /\ MatchOf(top).tail = "*")
    BY <2>1, <2>2 DEF StarKnown
  <2> QED BY <1>1, <2>3 DEF RoutedHere
<1>7. SuffixRight'
  BY <1>1, <1>2, <1>4 DEF SuffixRight
<1>8. OuterBare'
  BY <1>1, <1>2 DEF OuterBare
<1> QED BY <1>5, <1>6, <1>7, <1>8

\* SubRouter takes the suffix of the call.
LEMMA StrippingTied ==
    ASSUME Shape, StripsFirst, Suffixed, MatchBound, StarKnown, SuffixRight, OuterBare,
           NEW f, EnterStripping(f)
    PROVE  (MatchBound /\ StarKnown /\ SuffixRight /\ OuterBare)'
<1>1. /\ TopStep(f) /\ SameMaps(f) /\ f.i = top.i + 1 /\ layers[top.mux][top.i + 1] = "SubRouter"
      /\ f.called = top.called /\ depth' = depth /\ top' = f /\ depth \in Nat /\ depth \in 1 .. depth
  BY TopStepFrames, TopIsDeepest DEF EnterStripping, TopStep, Grown, Shape
<1>2. CASE Suffix(top) = NoPath
  BY <1>1, <1>2, NothingTied DEF EnterStripping, SameMaps
<1>3. CASE Suffix(top) # NoPath
  <2>1. path' = Suffix(top) /\ Matching(NoMatch) /\ f.saved # {}
    BY <1>3 DEF EnterStripping
  <2>2. ~Entered(depth, "Router") /\ ~Entered(depth, "Router")'
    BY StripsBefore
  <2>3. MatchOf(top)' = NoMatch
    BY <1>1, <2>1 DEF MatchOf, SameMaps, Matching
  <2>4. (Stars' <=> Stars) /\ (MixedMounts' <=> MixedMounts)
    BY <1>1, TopStepCalls
  <2>5. Suffix(top)' = Suffix(top)
    BY <1>1 DEF SameMaps, Suffix
  <2>6. MatchBound'
    BY <2>3, MountFacts DEF MatchBound
  <2>7. StarKnown'
    BY <1>1, <2>2, <2>4 DEF StarKnown, SameMaps
  <2>8. SuffixRight'
    BY <1>1, <2>1, <2>2, <2>4, <2>5 DEF SuffixRight
  <2>9. depth # 1
    BY <1>3, <2>2 DEF OuterBare
  <2>10. OuterBare'
    BY <1>1, <2>9 DEF OuterBare
  <2> QED BY <2>6, <2>7, <2>8, <2>10
<1> QED BY <1>2, <1>3

\* The suffix that a mux is called with is what the route to it leaves.
LEMMA CalledSuffix ==
    ASSUME Shape, Suffixed, MatchBound, Found.match \in Mounts
    PROVE  /\ Found.frame.params # 0 /\ Rest(Found.match) # NoPath
           /\ Found.match.tail = "*" => Found.params[Found.frame.params].star = Rest(Found.match)
           /\ Found.match.tail = "_" => Found.params[Found.frame.params].under = Rest(Found.match)
<1>1. Found.match.tail # "exact" /\ Found.match.prefix \in Paths
  BY MountFacts, RouteFacts DEF Suffixed
<1>2. Rest(Found.match) # NoPath
  BY <1>1, RestIsPath, NoPathIsNone DEF Shape, MapTypes
<1>3. CASE MatchOf(top) # NoMatch
  BY <1>2, <1>3, FoundFacts, Zenon DEF MatchBound
<1>4. CASE MatchOf(top) = NoMatch
  <2>1. Found.match = Chosen(top.mux) /\ Found.frame = Routed /\ Found.params = BoundParams
    BY <1>4, FoundFacts, Zenon
  <2> QED BY <1>1, <1>2, <2>1, BoundFacts, Zenon
<1> QED BY <1>3, <1>4

\* A star that it finds in the maps is another's, if the route to it has none.
LEMMA CalledStar ==
    ASSUME Shape, StarKnown, Found.match.tail # "*", Found.frame.params # 0,
           Found.params[Found.frame.params].star # NoPath
    PROVE  Stars
<1>1. Grown(Found.frame) /\ Found.frame.params \in 1 .. MaxDepth
  <2>1. Grown(Found.frame)
    BY FoundFacts
  <2>2. top.params \in 0 .. depth /\ depth \in 1 .. MaxDepth /\ MaxDepth \in Nat
    BY TopFacts DEF Shape
  <2> QED BY <2>1, <2>2 DEF Grown
<1>2. CASE MatchOf(top) # NoMatch
  <2>1. Found.match = MatchOf(top) /\ Found.frame = top /\ Found.params = params
    BY <1>2, FoundFacts
  <2> QED BY <2>1 DEF StarKnown
<1>3. CASE MatchOf(top) = NoMatch
  <2>1. Found.match = Chosen(top.mux) /\ Found.params = BoundParams
    BY <1>3, FoundFacts
  <2>2. \A d \in 1 .. MaxDepth : BoundParams[d].star = params[d].star
    BY <2>1, BoundFacts, Zenon
  <2>3. params[Found.frame.params].star # NoPath
    BY <1>1, <2>1, <2>2
  <2>4. PICK f : f = Found.frame
    OBVIOUS
  <2>5. top.params # 0 /\ params[top.params].star # NoPath
    BY <1>1, <2>3, <2>4, NoParams
  <2>6. MatchOf(top).tail # "*"
    BY <1>3, NoRoutes
  <2> QED BY <2>5, <2>6 DEF StarKnown
<1> QED BY <1>2, <1>3

\* A mux that is called has the suffix of its call.
LEMMA CallTied ==
    ASSUME Shape, Suffixed, MatchBound, StarKnown, NEW e, CallMux(e)
    PROVE  (MatchBound /\ StarKnown /\ SuffixRight /\ OuterBare)'
<1> DEFINE r == Found.match
<1>1. /\ depth' = depth + 1 /\ top' = e /\ frames'[depth + 1] = e /\ depth \in Nat /\ depth >= 1
      /\ \A d \in 1 .. depth : frames'[d].called = frames[d].called
      /\ e.params \in 0 .. depth /\ e.env \in 0 .. depth /\ MaxDepth \in Nat /\ depth < MaxDepth
  <2>1. depth \in 1 .. MaxDepth /\ MaxDepth \in Nat
    BY TopFacts DEF Shape
  <2> QED BY <2>1, CallMuxFrames DEF CallMux
<1>2. /\ e.i = 0 /\ e.saved = {} /\ e.params = Found.frame.params /\ e.env = Found.frame.env
      /\ e.called.tail = r.tail /\ r \in Mounts /\ path' = path
      /\ r.tail # "exact" => e.called.rest = Rest(r)
      /\ \A d \in 1 .. MaxDepth : d # depth + 1 => params'[d] = Found.params[d] /\ envs'[d] = Found.envs[d]
  BY DEF CallMux
<1>3. ~Entered(depth, "Router")'
  BY <1>1, <1>2 DEF Entered
<1>4. /\ e.params # 0 /\ Rest(r) # NoPath /\ r.tail # "exact" /\ e.called.rest = Rest(r)
      /\ r.tail = "*" => Found.params[e.params].star = Rest(r)
      /\ r.tail = "_" => Found.params[e.params].under = Rest(r)
  BY <1>2, CalledSuffix, Zenon DEF Suffixed
<1>5. params'[e.params] = Found.params[e.params]
  <2>1. e.params # 0
    BY <1>4, Zenon
  <2>2. e.params \in 1 .. MaxDepth /\ e.params # depth + 1
    BY <1>1, <2>1
  <2> QED BY <1>2, <2>2
<1>6. MatchOf(top)' = MatchOf(top)
  <2>1. \A d \in 1 .. MaxDepth : Found.envs[d].match = envs[d].match
    BY FoundFacts
  <2>2. /\ Grown(Found.frame) /\ (top.env = 0 => envs[depth] = EmptyEnv)
        /\ depth \in 1 .. MaxDepth /\ top.env \in 0 .. depth
    BY FoundFacts, TopFacts DEF Shape
  <2>3. e.env = top.env \/ (top.env = 0 /\ e.env = depth)
    BY <1>2, <2>2 DEF Grown
  <2>4. e.env # 0 => envs'[e.env].match = envs[e.env].match
    BY <1>1, <1>2, <2>1
  <2>5. MatchOf(top)' = IF e.env = 0 THEN NoMatch ELSE envs[e.env].match
    BY <1>1, <2>4 DEF MatchOf
  <2> QED BY <2>2, <2>3, <2>5 DEF MatchOf, EmptyEnv
<1>7. MatchBound'
  <2> SUFFICES ASSUME MatchOf(top) \in Mounts
               PROVE  /\ e.params # 0
                      /\ MatchOf(top).tail = "*" => params'[e.params].star = Rest(MatchOf(top))
                      /\ MatchOf(top).tail = "_" => params'[e.params].under = Rest(MatchOf(top))
    BY <1>1, <1>2, <1>6, Zenon DEF MatchBound, Rest
  <2>1. MatchOf(top) # NoMatch
    BY MountFacts
  <2>2. r = MatchOf(top)
    BY <2>1, FoundFacts
  <2> QED BY <1>4, <1>5, <2>2, Zenon
<1>8. Stars => Stars'
  <2> SUFFICES ASSUME NEW d \in 1 .. depth, frames[d].called.tail = "*" PROVE Stars'
    BY DEF Stars
  <2>1. d \in 1 .. depth + 1
    BY <1>1
  <2> QED BY <1>1, <2>1 DEF Stars
<1>9. r.tail = "*" => Stars'
  BY <1>1, <1>2 DEF Stars
<1>10. r.tail # "*" /\ params'[e.params].star # NoPath => Stars
  BY <1>2, <1>4, <1>5, CalledStar
<1>11. StarKnown'
  BY <1>1, <1>8, <1>9, <1>10 DEF StarKnown
<1>12. Stars /\ r.tail = "_" => MixedMounts'
  <2>1. depth + 1 \in 1 .. depth' /\ \A d \in 1 .. depth : d \in 1 .. depth' /\ d < depth + 1
    BY <1>1
  <2> SUFFICES ASSUME r.tail = "_", NEW d \in 1 .. depth, frames[d].called.tail = "*" PROVE MixedMounts'
    BY Zenon DEF Stars
  <2>2. frames'[d].called.tail = "*" /\ frames'[depth + 1].called.tail = "_"
    BY <1>1, <1>2, Zenon
  <2> QED BY <2>1, <2>2, Zenon DEF MixedMounts
<1>13. ~MixedMounts' => Suffix(top)' = Rest(r)
  <2> HAVE ~MixedMounts'
  <2>1. Suffix(top)' = IF params'[e.params].star # NoPath THEN params'[e.params].star
                       ELSE params'[e.params].under
    BY <1>1, <1>4 DEF Suffix
  <2>2. r.tail \in Tails
    BY <1>2, MountFacts, RouteFacts
  <2>3. CASE r.tail = "*"
    BY <1>4, <1>5, <2>1, <2>3, Zenon
  <2>4. CASE r.tail = "_"
    <3>1. r.tail # "*"
      BY <2>4, Zenon
    <3>2. ~Stars
      BY <1>12, <2>4, Zenon
    <3>3. params'[e.params].star = NoPath
      BY <1>10, <3>1, <3>2
    <3>4. params'[e.params].under = Rest(r)
      BY <1>4, <1>5, <2>4, Zenon
    <3> QED BY <2>1, <3>3, <3>4
  <2> QED BY <1>4, <2>2, <2>3, <2>4, Zenon DEF Tails
<1>14. SuffixRight'
  BY <1>1, <1>2, <1>4, <1>13 DEF SuffixRight
<1>15. OuterBare'
  BY <1>1 DEF OuterBare
<1> QED BY <1>7, <1>11, <1>14, <1>15

LEMMA TiedKept == ASSUME Shape, mode \in Modes, RoutedHere, Tied, Next PROVE Tied'
<1> SUFFICES ASSUME mode' = "down", StripsFirst, Suffixed
             PROVE  (MatchBound /\ StarKnown /\ SuffixRight /\ OuterBare)'
  <2>1. StripsFirst' <=> StripsFirst
    BY Running DEF StripsFirst, config
  <2> QED BY <2>1 DEF Tied
<1>1. mode = "down" => MatchBound /\ StarKnown /\ SuffixRight /\ OuterBare
  BY DEF Tied
<1>2. ASSUME NEW f, EnterPlain(f) PROVE (MatchBound /\ StarKnown /\ SuffixRight /\ OuterBare)'
  BY <1>1, <1>2, NothingTied DEF EnterPlain, Plain, maps
<1>3. ASSUME NEW f, EnterRouting(f) PROVE (MatchBound /\ StarKnown /\ SuffixRight /\ OuterBare)'
  BY <1>1, <1>3, RoutingTied DEF EnterRouting
<1>4. ASSUME NEW f, EnterStripping(f) PROVE (MatchBound /\ StarKnown /\ SuffixRight /\ OuterBare)'
  BY <1>1, <1>4, StrippingTied DEF EnterStripping
<1>5. ASSUME NEW e, CallMux(e) PROVE (MatchBound /\ StarKnown /\ SuffixRight /\ OuterBare)'
  BY <1>1, <1>5, CallTied DEF CallMux
<1> QED BY <1>2, <1>3, <1>4, <1>5, Steps DEF CallHandler, LeavePlain, LeaveStripping, Pop, Stays

-----------------------------------------------------------------------------
(* The invariant.                                                          *)

\* The request as net/http hands it over.
LEMMA InitFacts ==
    ASSUME Init
    PROVE  /\ depth = 1 /\ top = frames[1] /\ Shape
           /\ top.mux = Outer /\ top.i = 0 /\ top.saved = {} /\ top.env = 0 /\ top.params = 0
           /\ top.called = [path |-> path, match |-> NoMatch, rest |-> path, tail |-> "exact"]
<1> DEFINE called == [path |-> path, match |-> NoMatch, rest |-> path, tail |-> "exact"]
           f == [mux |-> Outer, i |-> 0, params |-> 0, env |-> 0, saved |-> {}, called |-> called]
<1>1. frames = <<f>>
  BY DEF Init, Frame
<1>2. path \in Paths /\ layers \in [Muxes -> Seq(Layers)] /\ MaxDepth \in Nat /\ MaxDepth # 0
  BY RequestAssumption DEF Init, Paths
<1>3. called \in Calls
  BY <1>2 DEF Calls, Tails, Matched
<1> HIDE DEF called
<1>4. f \in Frames /\ f.mux = Outer /\ f.i = 0 /\ f.saved = {} /\ f.env = 0 /\ f.params = 0
      /\ f.called = called
  <2>1. Outer \in Muxes
    BY RequestAssumption
  <2> QED BY <1>3, <2>1 DEF Frames
<1> HIDE DEF f
<1>5. depth = 1 /\ top = f /\ frames[1] = f /\ frames \in Seq(Frames)
  <2>1. Len(frames) = 1 /\ frames[1] = f
    BY <1>1
  <2>2. frames \in Seq(Frames)
    BY <1>1, <1>4
  <2> QED BY <2>1, <2>2 DEF depth, top
<1>6. MapTypes
  <2>1. EmptyEnv \in EnvTypes /\ EmptyParams \in ParamTypes
    BY DEF EmptyEnv, EmptyParams, EnvTypes, ParamTypes, Matched
  <2>2. /\ envs = [d \in 1 .. MaxDepth |-> EmptyEnv]
        /\ params = [d \in 1 .. MaxDepth |-> EmptyParams]
    BY DEF Init
  <2>3. envs \in [1 .. MaxDepth -> EnvTypes] /\ params \in [1 .. MaxDepth -> ParamTypes]
    BY <2>1, <2>2
  <2> QED BY <1>2, <2>3 DEF MapTypes, EnvTypes, ParamTypes
<1>7. FrameTypes
  <2>1. Len(layers[Outer]) \in Nat
    BY <1>2, LenProperties, RequestAssumption
  <2>2. 1 \in 1 .. MaxDepth /\ \A d \in 1 .. 1 : d = 1
    BY <1>2
  <2>3. 0 \in 0 .. Len(layers[Outer]) /\ 0 \in 0 .. 1
    BY <2>1
  <2> QED BY <1>4, <1>5, <2>2, <2>3 DEF FrameTypes
<1>8. Shared
  <2>1. 1 \in 1 .. MaxDepth /\ \A d \in 1 .. 1 : d = 1
    BY <1>2
  <2>2. envs[1] = EmptyEnv /\ params[1] = EmptyParams
    BY <2>1 DEF Init
  <2> QED BY <1>4, <1>5, <2>1, <2>2 DEF Shared
<1> QED BY <1>4, <1>5, <1>6, <1>7, <1>8 DEF Shape, called

LEMMA InitWriters ==
    ASSUME Init
    PROVE  WriterTypes /\ Wrapped /\ Silent /\ StatusTrue /\ HandlersHeard
<1>1. PICK s \in Servers : ws = <<Server(s)>>
  BY DEF Init
<1>2. Server(s) \in Servers1 /\ Server(s).code = 0 /\ Server(s).flushed = FALSE /\ Server(s).kind = "server"
  BY DEF Server, Servers1
<1>3. /\ Len(ws) = 1 /\ ws[1] = Server(s) /\ DOMAIN ws = {1} /\ 2 .. Len(ws) = {}
      /\ ws \in Seq(AllWriters)
  BY <1>1, <1>2 DEF AllWriters
<1>4. WriterTypes
  BY <1>2, <1>3 DEF WriterTypes, Writers, AllWriters
<1>5. Inside = {}
  <2>1. \A d \in 1 .. depth : 1 .. frames[d].i = {}
    BY InitFacts
  <2> QED BY <2>1 DEF Inside
<1>6. Wrapped
  BY <1>3, <1>5 DEF Wrapped, Wrapping
<1>7. Silent
  BY <1>2, <1>3 DEF Silent
<1>8. StatusTrue /\ HandlersHeard
  BY <1>2, <1>3 DEF StatusTrue, HandlersHeard, IsProxy
<1> QED BY <1>4, <1>6, <1>7, <1>8

LEMMA InitIInv == ASSUME Init PROVE IInv
<1>1. /\ depth = 1 /\ top = frames[1] /\ MapTypes /\ FrameTypes /\ Shared
      /\ top.i = 0 /\ top.saved = {} /\ top.env = 0 /\ top.params = 0
      /\ top.called.path = path /\ top.called.tail = "exact"
      /\ 2 .. depth = {} /\ 1 .. top.i = {} /\ 1 .. depth = {1}
  BY InitFacts DEF Shape
<1>2. mode = "down" /\ serving = "nil" /\ mode \in Modes
  BY DEF Init, Modes
<1>3. MatchOf(top) = NoMatch /\ MethodsOf(top) = NoMethods
  BY <1>1 DEF MatchOf, MethodsOf
<1>4. Saves /\ PathKept
  BY <1>1 DEF Saves, PathKept, PathAt
<1>5. Mounted /\ NoneCalled /\ MatchKept
  BY <1>1 DEF Mounted, NoneCalled, MatchKept
<1>6. SuffixFound
  BY <1>1, <1>3, MountFacts DEF SuffixFound
<1>7. ~Entered(depth, "Router")
  BY <1>1 DEF Entered
<1>8. RoutedHere /\ Telling
  BY <1>2, <1>3, <1>7 DEF RoutedHere, Telling
<1>9. MatchBound /\ StarKnown
  BY <1>1, <1>3, MountFacts, Zenon DEF MatchBound, StarKnown
<1>10. SuffixRight /\ OuterBare
  <2>1. Suffix(top) = NoPath /\ ~(depth > 1)
    BY <1>1 DEF Suffix
  <2> QED BY <1>1, <2>1 DEF SuffixRight, OuterBare
<1> QED BY <1>1, <1>2, <1>4, <1>5, <1>6, <1>8, <1>9, <1>10, InitWriters DEF IInv, Tied

\* Nothing that the invariant is about changes if nothing changes.
LEMMA IInvStays == ASSUME IInv, UNCHANGED vars PROVE IInv'
<1>1. /\ layers' = layers /\ method' = method /\ path' = path /\ envs' = envs /\ params' = params
      /\ frames' = frames /\ ws' = ws /\ mode' = mode /\ serving' = serving
  BY DEF vars, config, maps
<1>2. depth' = depth /\ top' = top
  BY <1>1 DEF depth, top
<1>3. MatchOf(top)' = MatchOf(top) /\ MethodsOf(top)' = MethodsOf(top)
  BY <1>1, <1>2 DEF MatchOf, MethodsOf
<1>4. (MapTypes /\ FrameTypes /\ mode \in Modes /\ Shared)'
  BY <1>1, <1>2 DEF IInv, MapTypes, FrameTypes, Shared
<1>5. (WriterTypes /\ Silent)'
  BY <1>1 DEF IInv, WriterTypes, Writers, Silent
<1>6. Wrapped'
  <2>1. Inside' = Inside /\ \A at : LayerAt(at)' = LayerAt(at)
    BY <1>1, <1>2 DEF Inside, LayerAt
  <2>2. InsideStays
    BY <2>1 DEF InsideStays
  <2>3. Wrapping' = Wrapping /\ \A at \in Wrapping : LayerAt(at)' = LayerAt(at)
    BY <1>1, <2>2, StaysWrapping
  <2> QED BY <1>1, <2>3 DEF IInv, Wrapped, LayerAt
<1>7. (Saves /\ PathKept /\ Mounted)'
  BY <1>1, <1>2 DEF IInv, Saves, PathKept, Mounted, PathAt, First
<1>8. (NoneCalled /\ SuffixFound /\ MatchKept)'
  <2>1. NoneCalled'
    BY <1>1, <1>2 DEF IInv, NoneCalled
  <2>2. SuffixFound'
    BY <1>1, <1>2, <1>3 DEF IInv, SuffixFound, HasSuffix
  <2>3. \A d : MatchAt(d)' = MatchAt(d) /\ \A old : First(d, old)' <=> First(d, old)
    BY <1>1, <1>2, <1>3 DEF MatchAt, First
  <2>4. MatchKept'
    <3>1. ASSUME Shielded, NEW d \in 2 .. depth
          PROVE  /\ frames[d].saved = {} => MatchAt(d)' = frames[d].called.match
                 /\ \A old \in frames[d].saved : First(d, old)' => old.match = frames[d].called.match
      BY <2>3, <3>1 DEF IInv, MatchKept
    <3>2. Shielded' <=> Shielded
      BY <1>1 DEF Shielded, Precedes
    <3> QED BY <1>1, <1>2, <3>1, <3>2 DEF MatchKept
  <2> QED BY <2>1, <2>2, <2>4
<1>9. (StatusTrue /\ HandlersHeard)'
  BY <1>1 DEF IInv, StatusTrue, HandlersHeard, StripsFirst
<1>10. (Entered(depth, "Router")' <=> Entered(depth, "Router")) /\ (StripsFirst' <=> StripsFirst)
  BY <1>1, <1>2 DEF Entered, StripsFirst
<1>11. Chosen(top.mux)' = Chosen(top.mux) /\ Takes(top.mux)' = Takes(top.mux)
  BY <1>1, <1>2, TopChosen
<1>12. (RoutedHere /\ Telling)'
  <2>1. \A d : MethodsOf(frames[d])' = MethodsOf(frames[d])
    BY <1>1 DEF MethodsOf
  <2> QED BY <1>1, <1>2, <1>3, <1>10, <1>11, <2>1 DEF IInv, RoutedHere, Telling
<1>13. (Stars' <=> Stars) /\ (MixedMounts' <=> MixedMounts) /\ Suffix(top)' = Suffix(top)
  BY <1>1, <1>2, Zenon DEF Stars, MixedMounts, Suffix
<1>14. MatchBound' <=> MatchBound
  BY <1>1, <1>2, <1>3, Zenon DEF MatchBound, Rest
<1>15. Tied'
  BY <1>1, <1>2, <1>3, <1>10, <1>13, <1>14 DEF IInv, Tied, StarKnown, SuffixRight, OuterBare
<1> QED BY <1>4, <1>5, <1>6, <1>7, <1>8, <1>9, <1>12, <1>15 DEF IInv

\* The invariant holds of every state.
THEOREM RequestInvariant == Spec => []IInv
<1>1. Init => IInv
  BY InitIInv
<1>2. IInv /\ [Next]_vars => IInv'
  <2> SUFFICES ASSUME IInv, [Next]_vars PROVE IInv'
    OBVIOUS
  <2>1. CASE UNCHANGED vars
    BY <2>1, IInvStays
  <2>2. CASE Next
    <3>1. Shape /\ WriterTypes
      BY DEF IInv, Shape
    <3>2. Shape' /\ mode' \in Modes
      BY <2>2, <3>1, ShapeKept DEF IInv
    <3>3. WriterTypes' /\ Wrapped' /\ Silent' /\ StatusTrue' /\ HandlersHeard'
      BY <2>2, <3>1, WrappedKept, SilenceKept, StatusKept, HeardKept DEF IInv
    <3>4. Saves' /\ PathKept' /\ Mounted' /\ NoneCalled' /\ SuffixFound' /\ MatchKept'
      BY <2>2, <3>1, SavesKept, PathsKept, MountsKept, NoneIsCalled, SuffixesKept, MatchesKept DEF IInv
    <3>5. RoutedHere' /\ Telling' /\ Tied'
      BY <2>2, <3>1, RoutedKept, TellingKept, TiedKept DEF IInv
    <3> QED BY <3>2, <3>3, <3>4, <3>5 DEF IInv, Shape
  <2> QED BY <2>1, <2>2
<1> QED BY <1>1, <1>2, PTL DEF Spec

(* Maps are those of muxes further out, and there is a writer for every    *)
(* layer that makes one and that the request is in, in their order.        *)
THEOREM TypeCorrect == Spec => []TypeOK
<1>1. IInv => TypeOK
  <2> SUFFICES ASSUME IInv PROVE TypeOK
    OBVIOUS
  <2>1. Len(ws) \in Nat
    BY WriterFacts DEF IInv, WriterTypes
  <2>2. {ws[k].at : k \in 2 .. Len(ws)} = Wrapping
    BY DEF IInv, Wrapped
  <2>3. \A k \in 2 .. Len(ws) :
           /\ IsProxy(ws[k]) <=> LayerAt(ws[k].at) = "Logger"
           /\ \A j \in 2 .. k - 1 : Deeper(ws[j].at, ws[k].at)
    <3> TAKE k \in 2 .. Len(ws)
    <3>1. \A j \in 2 .. k - 1 : j \in 2 .. Len(ws) /\ j < k
      BY <2>1
    <3> QED BY <3>1 DEF IInv, Wrapped
  <2> QED BY <2>2, <2>3 DEF TypeOK, IInv, FrameTypes, Modes
<1> QED BY <1>1, RequestInvariant, PTL

(* Whatever is written, in whatever order, and whoever panics: a Logger    *)
(* that no autoOptionsProxy stands before has the status that was sent,    *)
(* unless the handler has flushed first (mutil/writer_proxy_go1_8.go).     *)
THEOREM StatusIsTrue == Spec => []StatusTrue
<1>1. IInv => StatusTrue
  BY DEF IInv
<1> QED BY <1>1, RequestInvariant, PTL

(* The autoOptionsProxy answers for nobody but the router's NotFound, if   *)
(* muxes strip before they route (middleware/options.go).                  *)
THEOREM HandlersAreHeard == Spec => []HandlersHeard
<1>1. IInv => HandlersHeard
  BY DEF IInv
<1> QED BY <1>1, RequestInvariant, PTL

(* Within SubRouter the path is the part of it that the pattern of the     *)
(* route to its mux left, at any depth (middleware/subrouter.go).          *)
THEOREM SuffixesAreStripped == Spec => []Stripped
<1>1. IInv => Stripped
  <2> SUFFICES ASSUME IInv, mode = "down", top.saved # {}, ~MixedMounts, Suffixed, StripsFirst
               PROVE  path = top.called.rest
    BY DEF Stripped
  <2>1. SuffixRight /\ OuterBare
    BY DEF IInv, Tied
  <2>2. depth > 1
    <3>1. depth # 1
      BY <2>1 DEF OuterBare
    <3> QED BY <3>1, TopIsDeepest DEF IInv, Shape
  <2> QED BY <2>1, <2>2 DEF SuffixRight
<1> QED BY <1>1, RequestInvariant, PTL

(* A mux is left, by return or by panic, with the path, and if every mux   *)
(* strips before it routes with the match, that it was called with.        *)
THEOREM CallersAreRestored == Spec => Restored
<1>1. IInv /\ [Next]_vars =>
         [depth' < depth /\ Shielded =>
             /\ path' = top.called.path
             /\ (IF top'.env = 0 THEN NoMatch ELSE envs'[top'.env].match) = top.called.match]_vars
  <2> SUFFICES ASSUME IInv, Next, depth' < depth, Shielded
               PROVE  /\ path' = top.called.path
                      /\ (IF top'.env = 0 THEN NoMatch ELSE envs'[top'.env].match) = top.called.match
    OBVIOUS
  <2>1. Shape /\ depth \in Nat
    BY TopIsDeepest DEF IInv, Shape
  <2>2. Pop
    <3>1. \A f : TopStep(f) => depth' = depth
      BY <2>1, TopStepFrames DEF Shape
    <3>2. \A e : CallMux(e) => depth' = depth + 1
      BY DEF CallMux
    <3>3. Stays => depth' = depth
      BY DEF Stays, depth
    <3> QED BY <2>1, <3>1, <3>2, <3>3, Steps
            DEF IInv, EnterPlain, EnterRouting, EnterStripping, CallHandler, LeavePlain, LeaveStripping, Plain
  <2>3. path' = top.called.path /\ MatchOf(top)' = top.called.match
    BY <2>1, <2>2, PopRestores DEF IInv
  <2> QED BY <2>3 DEF MatchOf
<1> QED BY <1>1, RequestInvariant, PTL DEF Spec, Restored
=============================================================================
