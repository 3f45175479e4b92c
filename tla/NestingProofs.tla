---------------------------- MODULE NestingProofs ----------------------------
(***************************************************************************)
(* Proofs about how muxes call each other.  An OPTIONS request that nobody *)
(* takes is answered with what the innermost mux allows, at any depth and  *)
(* through any middleware; and muxes that give away some of the path, or   *)
(* come in some order, do not call each other for ever.                    *)
(***************************************************************************)
EXTENDS RequestProofs

\* Route r takes a request for path p.
Suits(r, p) ==
    /\ method \in r.methods
    /\ IF r.tail = "exact" THEN p = r.prefix ELSE IsPrefix(r.prefix, p) /\ Len(p) > Len(r.prefix)

\* The mux at depth d had a route for what it called the next mux with.
Took(d) ==
    \E i \in DOMAIN Routes[frames[d].mux] :
        Suits(Routes[frames[d].mux][i], frames[d + 1].called.path)

\* The mux on top has an Env that says what it allows.
Told == Tells(top.mux) => top.env # 0 /\ MethodsOf(top) = Allowed(top.mux)

\* The explicit match is the one that the mux on top was itself found by.
Inherited ==
    /\ depth > 1 /\ MatchOf(top).handler = top.mux /\ top.saved = {} /\ ~Entered(depth, "Router")
    /\ Entered(depth, "SubRouter") => Suffix(top) = NoPath

\* Where the explicit match comes from.
Explained ==
    mode = "down" =>
        \/ MatchOf(top) = NoMatch
        \/ Inherited
        \/ MatchOf(top) = Chosen(top.mux) /\ Told

\* A mux that does nothing about it calls itself for ever.
Stuck ==
    /\ mode = "down" /\ depth > 1 /\ MatchOf(top).handler = top.mux /\ top.saved = {}
    /\ ~Contains(layers[top.mux], "Router")
    /\ Contains(layers[top.mux], "SubRouter") => Suffix(top) = NoPath

Callers == mode = "overflow" \/ Stuck \/ \A d \in 1 .. depth - 1 : Took(d)

\* Nothing has been written, and nothing been told: NotFound is the first to write.
NothingWritten(s) ==
    /\ s[1].code = 0 /\ s[1].bytes = 0
    /\ \A k \in 2 .. Len(s) : IF IsProxy(s[k]) THEN s[k].code = 0 ELSE s[k].state = "init"
Quiet == mode = "down" \/ (mode = "handler" /\ serving = "notFound") => NothingWritten(ws)

Unanswered == mode = "handler" /\ serving = "notFound" => Takes(top.mux) = {} /\ Told

AnswerInv == IInv /\ Explained /\ Callers /\ Quiet /\ Unanswered /\ OptionsAnswered

-----------------------------------------------------------------------------
(* Steps, with what the router's say of the mux that takes them.           *)

RoutesNow == top.i = Len(layers[top.mux])

LEMMA NestingSteps ==
    ASSUME Shape, mode \in Modes, Next
    PROVE  \/ \E f : EnterPlain(f)
           \/ \E f : EnterRouting(f)
           \/ \E f : EnterStripping(f)
           \/ CallHandler(Found.frame) /\ Found.match.handler \notin Muxes /\ UNCHANGED ws
           \/ (\E e : CallMux(e)) /\ RoutesNow
           \/ RouteTooDeep
           \/ \E f : LeavePlain(f)
           \/ \E f : LeaveStripping(f)
           \/ Pop
           \/ Stays /\ mode \notin {"down", "overflow"}
<1>1. CASE EnterLayer
  BY <1>1, EnterPlainStep, EnterRoutingStep, EnterStrippingStep DEF EnterLayer
<1>2. CASE Routing
  <2>1. RouteToHandler => Found.match.handler \notin Muxes /\ UNCHANGED ws
    BY DEF RouteToHandler, Route
  <2>2. RouteToMux => RoutesNow
    BY DEF RouteToMux, Route, RoutesNow
  <2> QED BY <1>2, <2>1, <2>2, CallHandlerStep, CallMuxStep DEF Routing
<1>3. CASE Handler
  BY <1>3 DEF Handler, CallWriteHeader, CallWrite, CallFlush, CallReadFrom, Call,
              HandlerReturn, HandlerPanic, ServeNotFound, Stays, Modes
<1>4. CASE LeaveLayer
  BY <1>4, LeavePlainStep, LeaveStrippingStep DEF LeaveLayer
<1>5. CASE LeaveMux
  <2>1. CASE depth > 1
    BY <1>5, <2>1, PopStep
  <2>2. CASE ~(depth > 1)
    BY <1>5, <2>2 DEF LeaveMux, Stays, Modes
  <2> QED BY <2>1, <2>2
<1> QED BY <1>1, <1>2, <1>3, <1>4, <1>5 DEF Next

\* What a mux finds and allows is the same while the path is.
LEMMA SameRouting ==
    ASSUME UNCHANGED <<path, method>>, top'.mux = top.mux
    PROVE  /\ Chosen(top.mux)' = Chosen(top.mux) /\ Takes(top.mux)' = Takes(top.mux)
           /\ Allowed(top.mux)' = Allowed(top.mux) /\ Tells(top.mux)' = Tells(top.mux)
BY DEF Tells, Allowed, Asked, Chosen, TakenAt, Takes, Hits, Matches

\* Routing that finds no route, but some methods, tells them.
LEMMA TellingFacts ==
    ASSUME Shape, Tells(top.mux)
    PROVE  /\ Routed.env = (IF top.env = 0 THEN depth ELSE top.env)
           /\ Routed.env \in 1 .. MaxDepth
           /\ ToldEnvs[Routed.env].methods = Allowed(top.mux)
<1> DEFINE f == IF Binds(top.mux) # EmptyParams /\ top.params = 0
                THEN [top EXCEPT !.params = depth] ELSE top
<1>1. /\ depth \in 1 .. MaxDepth /\ MaxDepth \in Nat /\ depth \in Nat /\ top \in Frames
      /\ top.env \in 0 .. depth
  BY TopFacts DEF Shape
<1>2. f \in Frames /\ f.env = top.env
  BY <1>1 DEF Frames
<1>3. Routed = WithEnv(f)
  BY DEF Routed
<1> HIDE DEF f
<1>4. Routed.env = IF top.env = 0 THEN depth ELSE top.env
  BY <1>1, <1>2, <1>3, WithEnvFacts
<1>5. Routed.env \in 1 .. MaxDepth
  BY <1>1, <1>4
<1>6. ToldEnvs = [envs EXCEPT ![Routed.env] = [envs[Routed.env] EXCEPT !.methods = Allowed(top.mux)]]
  BY DEF ToldEnvs, Tell
<1>7. envs \in [1 .. MaxDepth -> EnvTypes] /\ envs[Routed.env] \in EnvTypes
  BY <1>5 DEF Shape, MapTypes, EnvTypes
<1>8. [envs[Routed.env] EXCEPT !.methods = Allowed(top.mux)].methods = Allowed(top.mux)
  BY <1>7 DEF EnvTypes
<1> QED BY <1>4, <1>5, <1>6, <1>7, <1>8

\* A mux that is called has its caller's match.
LEMMA CalleesMatch ==
    ASSUME Shape, NEW e, CallMux(e)
    PROVE  MatchOf(top)' = MatchOf(top)
<1>1. /\ depth \in 1 .. MaxDepth /\ MaxDepth \in Nat /\ depth \in Nat /\ top.env \in 0 .. depth
      /\ top.env = 0 => envs[depth] = EmptyEnv
  BY TopFacts DEF Shape
<1>2. /\ top' = e
      /\ e.env = top.env \/ (top.env = 0 /\ e.env = depth)
      /\ e.env \in 0 .. depth
  BY CallMuxFrames
<1>3. top' = e /\ \A d \in 1 .. depth : envs'[d] = Found.envs[d]
  BY <1>1 DEF CallMux
<1>4. \A d \in 1 .. depth : envs'[d].match = envs[d].match
  <2>1. \A d \in 1 .. MaxDepth : Found.envs[d].match = envs[d].match
    BY FoundFacts
  <2> QED BY <1>1, <1>3, <2>1
<1>5. EmptyEnv.match = NoMatch
  BY DEF EmptyEnv
<1>6. CASE e.env = 0
  BY <1>1, <1>2, <1>3, <1>6 DEF MatchOf
<1>7. CASE e.env # 0
  <2>1. e.env \in 1 .. depth
    BY <1>1, <1>2, <1>7
  <2>2. MatchOf(top)' = envs[e.env].match
    BY <1>3, <1>4, <1>7, <2>1 DEF MatchOf
  <2>3. CASE top.env = 0
    BY <1>1, <1>2, <1>5, <1>7, <2>2, <2>3 DEF MatchOf
  <2>4. CASE top.env # 0
    BY <1>2, <2>2, <2>4 DEF MatchOf
  <2> QED BY <2>3, <2>4
<1> QED BY <1>6, <1>7

-----------------------------------------------------------------------------
(* The explicit match, step by step.                                       *)

LEMMA PlainExplained ==
    ASSUME Shape, Explained, NEW f, EnterPlain(f)
    PROVE  Explained'
<1>1. /\ TopStep(f) /\ f.i = top.i + 1 /\ layers[top.mux][top.i + 1] \notin {"Router", "SubRouter"}
      /\ mode = "down" /\ Grown(f) /\ envs' = envs /\ params' = params /\ path' = path
      /\ f.mux = top.mux /\ f.saved = top.saved /\ f.params = top.params
  BY DEF EnterPlain, Plain, TopStep, Grown, maps
<1>2. depth' = depth /\ top' = f /\ method' = method
  BY <1>1, TopStepFrames DEF Shape
<1>3. MatchOf(top)' = MatchOf(top) /\ MethodsOf(top)' = MethodsOf(top)
  <2>1. MatchOf(f)' = MatchOf(top) /\ MethodsOf(f)' = MethodsOf(top)
    BY <1>1, SameMatch, SameMethods
  <2> QED BY <1>2, <2>1 DEF MatchOf, MethodsOf
<1>4. CASE MatchOf(top) = NoMatch
  BY <1>3, <1>4 DEF Explained
<1>5. CASE Inherited
  <2>1. Suffix(top)' = Suffix(top)
    BY <1>1, <1>2 DEF Suffix
  <2>2. /\ Entered(depth, "Router")' <=> Entered(depth, "Router")
        /\ Entered(depth, "SubRouter")' <=> Entered(depth, "SubRouter")
    BY <1>1, EntersNext
  <2> QED BY <1>1, <1>2, <1>3, <1>5, <2>1, <2>2 DEF Explained, Inherited
<1>6. CASE MatchOf(top) = Chosen(top.mux) /\ Told
  <2>1. top.env # 0 => f.env # 0
    BY <1>1 DEF Grown
  <2>2. Told'
    BY <1>1, <1>2, <1>3, <1>6, <2>1, SameRouting DEF Told
  <2>3. Chosen(top.mux)' = Chosen(top.mux)
    BY <1>1, <1>2, SameRouting
  <2> QED BY <1>3, <1>6, <2>2, <2>3 DEF Explained
<1> QED BY <1>1, <1>4, <1>5, <1>6 DEF Explained

LEMMA RoutingExplained ==
    ASSUME Shape, NEW f, EnterRouting(f)
    PROVE  Explained'
<1>1. /\ TopStep(f) /\ Grown(f) /\ path' = path /\ f.mux = top.mux
      /\ f.env # 0 /\ envs'[f.env].match = Chosen(top.mux)
      /\ envs'[f.env].methods = ToldEnvs[f.env].methods
  BY DEF EnterRouting, Plain, TopStep, Grown
<1>2. depth' = depth /\ top' = f /\ method' = method
  BY <1>1, TopStepFrames DEF Shape
<1>3. MatchOf(top)' = Chosen(top.mux)'
  BY <1>1, <1>2, SameRouting DEF MatchOf
<1>4. ASSUME Tells(top.mux) PROVE MethodsOf(top)' = Allowed(top.mux)
  <2>1. f.env = Routed.env /\ ToldEnvs[Routed.env].methods = Allowed(top.mux)
    BY <1>1, <1>4, TellingFacts DEF Grown
  <2> QED BY <1>1, <1>2, <2>1 DEF MethodsOf
<1>5. Told'
  BY <1>1, <1>2, <1>4, SameRouting DEF Told
<1> QED BY <1>3, <1>5 DEF Explained

\* SubRouter takes the match away, if it finds a suffix.
LEMMA StrippedMatch ==
    ASSUME Shape, NEW f, EnterStripping(f)
    PROVE  /\ depth' = depth /\ top' = f /\ f.mux = top.mux /\ f.env = top.env /\ f.params = top.params
           /\ layers' = layers /\ method' = method
           /\ Suffix(top) = NoPath => /\ path' = path /\ f.saved = top.saved
                                      /\ MatchOf(top)' = MatchOf(top)
                                      /\ MethodsOf(top)' = MethodsOf(top)
                                      /\ Suffix(top)' = NoPath
           /\ Suffix(top) # NoPath => MatchOf(top)' = NoMatch
<1>1. TopStep(f) /\ SameMaps(f) /\ f.mux = top.mux
  BY DEF EnterStripping, TopStep, Grown
<1>2. depth' = depth /\ top' = f /\ layers' = layers /\ method' = method
  BY <1>1, TopStepFrames DEF Shape
<1>3. ASSUME Suffix(top) = NoPath
      PROVE  /\ path' = path /\ f.saved = top.saved /\ MatchOf(top)' = MatchOf(top)
             /\ MethodsOf(top)' = MethodsOf(top) /\ Suffix(top)' = NoPath
  <2>1. path' = path /\ f.saved = top.saved /\ envs' = envs
    BY <1>3 DEF EnterStripping
  <2> QED BY <1>1, <1>2, <1>3, <2>1 DEF SameMaps, MatchOf, MethodsOf, Suffix
<1>4. ASSUME Suffix(top) # NoPath PROVE MatchOf(top)' = NoMatch
  <2>1. Matching(NoMatch)
    BY <1>4 DEF EnterStripping
  <2> QED BY <1>1, <1>2, <2>1 DEF SameMaps, Matching, MatchOf
<1> QED BY <1>1, <1>2, <1>3, <1>4 DEF SameMaps

LEMMA StrippingExplained ==
    ASSUME Shape, Explained, NEW f, EnterStripping(f)
    PROVE  Explained'
<1>1. /\ TopStep(f) /\ f.i = top.i + 1 /\ layers[top.mux][top.i + 1] = "SubRouter" /\ mode = "down"
  BY DEF EnterStripping
<1>2. CASE Suffix(top) # NoPath
  BY <1>2, StrippedMatch DEF Explained
<1>3. CASE Suffix(top) = NoPath
  <2>1. CASE MatchOf(top) = NoMatch
    BY <1>3, <2>1, StrippedMatch DEF Explained
  <2>2. CASE Inherited
    <3>1. Entered(depth, "Router")' <=> Entered(depth, "Router")
      BY <1>1, EntersNext
    <3> QED BY <1>3, <2>2, <3>1, StrippedMatch DEF Explained, Inherited
  <2>3. CASE MatchOf(top) = Chosen(top.mux) /\ Told
    <3>1. Told' /\ Chosen(top.mux)' = Chosen(top.mux)
      BY <1>3, <2>3, StrippedMatch, SameRouting DEF Told
    <3> QED BY <1>3, <2>3, <3>1, StrippedMatch DEF Explained
  <2> QED BY <1>1, <2>1, <2>2, <2>3 DEF Explained
<1> QED BY <1>2, <1>3

LEMMA CallExplained ==
    ASSUME Shape, NEW e, CallMux(e)
    PROVE  Explained'
<1>1. MatchOf(top)' = MatchOf(top)
  BY CalleesMatch
<1>2. CASE MatchOf(top) = NoMatch
  BY <1>1, <1>2 DEF Explained
<1>3. CASE MatchOf(top) # NoMatch
  <2>1. e.mux = MatchOf(top).handler
    BY <1>3, FoundFacts DEF CallMux
  <2>2. /\ depth' = depth + 1 /\ depth \in Nat /\ depth >= 1 /\ top' = e /\ frames'[depth + 1] = e
        /\ e.i = 0 /\ e.saved = {}
    BY TopFacts DEF CallMux, Shape
  <2>3. \A l : ~Entered(depth, l)'
    BY <2>2 DEF Entered
  <2> QED BY <1>1, <2>1, <2>2, <2>3 DEF Explained, Inherited
<1> QED BY <1>2, <1>3

LEMMA ExplainedKept == ASSUME Shape, mode \in Modes, Explained, Next PROVE Explained'
<1>1. CASE mode' # "down"
  BY <1>1 DEF Explained
<1>2. CASE mode' = "down"
  <2>1. ~CallHandler(Found.frame) /\ ~RouteTooDeep /\ ~Pop /\ ~Stays
        /\ \A f : ~LeavePlain(f) /\ ~LeaveStripping(f)
    BY <1>2 DEF CallHandler, RouteTooDeep, Pop, Stays, LeavePlain, LeaveStripping
  <2> QED BY <2>1, NestingSteps, PlainExplained, RoutingExplained, StrippingExplained, CallExplained
<1> QED BY <1>1, <1>2

-----------------------------------------------------------------------------
(* Who has called whom, step by step.                                      *)

\* Below the top nothing changes.
LEMMA TopStepCallers ==
    ASSUME Shape, NEW f, TopStep(f), \A d \in 1 .. depth - 1 : Took(d)
    PROVE  \A d \in 1 .. depth' - 1 : Took(d)'
<1>1. /\ depth' = depth /\ method' = method /\ \A d \in 1 .. depth - 1 : frames'[d] = frames[d]
      /\ \A d \in 1 .. depth : frames'[d].called = frames[d].called
  BY TopStepFrames DEF Shape
<1>2. \A d \in 1 .. depth - 1 : d + 1 \in 1 .. depth
  BY TopIsDeepest
<1> QED BY <1>1, <1>2 DEF Took, Suits

\* A layer of a list is contained in it, wherever it stands.
LEMMA ContainsLayer ==
    ASSUME Shape, NEW l
    PROVE  /\ Contains(layers[top.mux], l) <=> \E j \in 1 .. Len(layers[top.mux]) : layers[top.mux][j] = l
           /\ RoutesNow => (Contains(layers[top.mux], l) <=> Entered(depth, l))
           /\ top.i < Len(layers[top.mux]) /\ layers[top.mux][top.i + 1] = l => Contains(layers[top.mux], l)
<1>1. Contains(layers[top.mux], l) <=> \E j \in 1 .. Len(layers[top.mux]) : layers[top.mux][j] = l
  BY DEF Contains
<1>2. top = frames[depth] /\ top.i \in Nat /\ Len(layers[top.mux]) \in Nat
  BY TopFacts, TopPlaces, TopIsDeepest, LenProperties DEF Shape, MapTypes
<1>3. top.i < Len(layers[top.mux]) => top.i + 1 \in 1 .. Len(layers[top.mux])
  BY <1>2
<1> QED BY <1>1, <1>2, <1>3 DEF RoutesNow, Entered

LEMMA StuckStays ==
    ASSUME Shape, Stuck, Next
    PROVE  Stuck' \/ mode' = "overflow"
<1>1. /\ mode = "down" /\ mode \in Modes /\ top.mux \in Muxes /\ MatchOf(top) # NoMatch
  BY TopFacts, NoRoutes DEF Stuck, Modes, Shape
<1>2. ASSUME NEW f, EnterPlain(f) PROVE Stuck'
  <2>1. /\ TopStep(f) /\ Grown(f) /\ envs' = envs /\ params' = params /\ f.mux = top.mux
        /\ f.saved = top.saved /\ f.params = top.params /\ mode' = "down"
    BY <1>2 DEF EnterPlain, Plain, TopStep, Grown, maps
  <2>2. depth' = depth /\ top' = f /\ layers' = layers
    BY <2>1, TopStepFrames DEF Shape
  <2>3. MatchOf(top)' = MatchOf(top)
    <3>1. MatchOf(f)' = MatchOf(top)
      BY <2>1, SameMatch
    <3> QED BY <2>2, <3>1 DEF MatchOf
  <2>4. Suffix(top)' = Suffix(top)
    BY <2>1, <2>2 DEF Suffix
  <2> QED BY <2>1, <2>2, <2>3, <2>4 DEF Stuck
<1>3. ASSUME NEW f, EnterRouting(f) PROVE FALSE
  BY <1>3, ContainsLayer DEF EnterRouting, Stuck
<1>4. ASSUME NEW f, EnterStripping(f) PROVE Stuck'
  <2>1. Suffix(top) = NoPath
    BY <1>4, ContainsLayer DEF EnterStripping, Stuck
  <2>2. mode' = "down"
    BY <1>4 DEF EnterStripping
  <2> QED BY <1>4, <2>1, <2>2, StrippedMatch DEF Stuck
<1>5. ASSUME NEW e, CallMux(e) PROVE Stuck'
  <2>1. MatchOf(top)' = MatchOf(top)
    BY <1>5, CalleesMatch
  <2>2. /\ mode' = "down" /\ e.mux = top.mux /\ e.saved = {}
        /\ e.params = top.params /\ Found.params = params
    BY <1>1, <1>5, FoundFacts DEF CallMux, Stuck
  <2>3. /\ depth' = depth + 1 /\ depth \in Nat /\ depth >= 1 /\ top' = e /\ layers' = layers
        /\ top.params \in 0 .. depth /\ depth + 1 \in 1 .. MaxDepth /\ MaxDepth \in Nat
    BY <1>5, TopFacts, CallMuxFrames DEF Shape
  <2>4. top.params # 0 => params'[top.params] = params[top.params]
    <3>1. top.params # 0 => top.params \in 1 .. MaxDepth /\ top.params # depth + 1
      BY <2>3
    <3> QED BY <1>5, <2>2, <3>1 DEF CallMux
  <2>5. Suffix(top)' = Suffix(top)
    BY <2>2, <2>3, <2>4 DEF Suffix
  <2> QED BY <2>1, <2>2, <2>3, <2>5 DEF Stuck
<1>6. CASE Found.match.handler \notin Muxes
  BY <1>1, <1>6, FoundFacts DEF Stuck
<1>7. CASE RouteTooDeep
  BY <1>7 DEF RouteTooDeep
<1> QED BY <1>1, <1>2, <1>3, <1>4, <1>5, <1>6, <1>7, NestingSteps DEF LeavePlain, LeaveStripping, Pop

\* Whoever calls a mux has a route for it, if it is not stuck.
LEMMA CallerTakes ==
    ASSUME Shape, Explained, mode = "down", Found.match.handler \in Muxes, RoutesNow, ~Stuck
    PROVE  /\ Found.match \in Mounts
           /\ Found.match = Chosen(top.mux) /\ Takes(top.mux) # {}
           /\ TakenAt(top.mux) \in DOMAIN Routes[top.mux]
           /\ Found.match = Routes[top.mux][TakenAt(top.mux)]
           /\ Suits(Found.match, path)
<1>1. Found.match = Chosen(top.mux)
  <2>1. CASE MatchOf(top) = NoMatch
    BY <2>1, FoundFacts
  <2>2. ~Inherited
    BY ContainsLayer DEF Inherited, Stuck
  <2>3. CASE MatchOf(top) = Chosen(top.mux)
    <3>1. Chosen(top.mux) # NoMatch
      BY TopFacts, ChosenFacts DEF Shape
    <3> QED BY <2>3, <3>1, FoundFacts
  <2> QED BY <2>1, <2>2, <2>3 DEF Explained
<1>2. top.mux \in Muxes /\ Found.match \in Mounts
  BY TopFacts, FoundFacts, MountFacts DEF Shape
<1>3. Takes(top.mux) # {}
  BY <1>1, <1>2, MountFacts, ChosenFacts
<1>4. TakenAt(top.mux) \in Takes(top.mux) /\ Found.match = Routes[top.mux][TakenAt(top.mux)]
  BY <1>1, <1>2, <1>3, ChosenFacts
<1>5. /\ TakenAt(top.mux) \in DOMAIN Routes[top.mux] /\ method \in Found.match.methods
      /\ Matches(Found.match)
  BY <1>4 DEF Takes, Hits
<1> QED BY <1>1, <1>2, <1>3, <1>4, <1>5 DEF Suits, Matches

LEMMA CallersKept == ASSUME Shape, mode \in Modes, Explained, Callers, Next PROVE Callers'
<1>1. CASE Stuck
  BY <1>1, StuckStays DEF Callers
<1>2. mode # "overflow"
  BY Running
<1>3. CASE ~Stuck
  <2>1. \A d \in 1 .. depth - 1 : Took(d)
    BY <1>2, <1>3 DEF Callers
  <2>2. ASSUME NEW f, TopStep(f) PROVE Callers'
    BY <2>1, <2>2, TopStepCallers DEF Callers
  <2>3. ASSUME NEW e, CallMux(e), RoutesNow PROVE Callers'
    <3>1. /\ depth' = depth + 1 /\ depth \in Nat /\ frames'[depth].mux = top.mux /\ frames'[depth + 1] = e
          /\ e.called.path = path /\ method' = method
          /\ \A d \in 1 .. depth : frames'[d].mux = frames[d].mux /\ frames'[d].called = frames[d].called
      BY <2>3, CallMuxFrames, TopIsDeepest DEF CallMux, config
    <3>2. /\ TakenAt(top.mux) \in DOMAIN Routes[top.mux]
          /\ Suits(Routes[top.mux][TakenAt(top.mux)], path)
      <4>1. mode = "down" /\ Found.match.handler \in Muxes
        BY <2>3, MountFacts DEF CallMux
      <4> QED BY <1>3, <2>3, <4>1, CallerTakes
    <3>3. ASSUME NEW d \in 1 .. depth PROVE Took(d)'
      <4>1. CASE d = depth
        BY <3>1, <3>2, <4>1 DEF Took, Suits
      <4>2. CASE d # depth
        <5>1. d \in 1 .. depth - 1 /\ d + 1 \in 1 .. depth /\ Took(d)
          BY <2>1, <3>1, <4>2
        <5> QED BY <3>1, <5>1 DEF Took, Suits
      <4> QED BY <4>1, <4>2
    <3>4. depth' - 1 = depth
      BY <3>1
    <3> QED BY <3>3, <3>4 DEF Callers
  <2>4. CASE Pop
    <3>1. /\ depth' = depth - 1 /\ method' = method /\ depth \in Nat
          /\ \A d \in 1 .. depth - 1 : frames'[d] = frames[d]
      BY <2>4, TopIsDeepest DEF Pop, config
    <3>2. \A d \in 1 .. depth' - 1 : d \in 1 .. depth - 1 /\ d + 1 \in 1 .. depth - 1
      BY <3>1
    <3> QED BY <2>1, <3>1, <3>2 DEF Callers, Took, Suits
  <2>5. CASE RouteTooDeep
    BY <2>5 DEF RouteTooDeep, Callers
  <2>6. CASE Stays
    BY <2>1, <2>6 DEF Stays, Callers, Took, Suits, depth, config
  <2> QED BY <2>2, <2>3, <2>4, <2>5, <2>6, NestingSteps
          DEF EnterPlain, EnterRouting, EnterStripping, CallHandler, LeavePlain, LeaveStripping, Plain
<1> QED BY <1>1, <1>3

\* When a mux is left, its caller had a route for it.
LEMMA CallerTook ==
    ASSUME Shape, Saves, PathKept, Callers, Pop
    PROVE  Takes(top.mux)' # {}
<1>1. /\ depth - 1 \in 1 .. depth - 1 /\ depth \in Nat /\ top' = frames[depth - 1]
      /\ path' = path /\ method' = method
      /\ mode \notin {"down", "overflow"}
  BY TopIsDeepest DEF Pop, config
<1>2. path = frames[depth].called.path
  BY TopSaves, TopPath, TopIsDeepest DEF Pop
<1>3. Took(depth - 1) /\ (depth - 1) + 1 = depth
  BY <1>1 DEF Callers, Stuck
<1>4. PICK i \in DOMAIN Routes[top'.mux] : Suits(Routes[top'.mux][i], path)
  BY <1>1, <1>2, <1>3 DEF Took
<1>5. i \in Takes(top.mux)'
  BY <1>1, <1>4 DEF Suits, Takes, Hits, Matches
<1> QED BY <1>5

-----------------------------------------------------------------------------
(* The answer.                                                             *)

\* Only routing leads to the NotFound handler, and it writes nothing.
LEMMA NotFoundCalled ==
    ASSUME Shape, mode \in Modes, Next, mode' = "handler", serving' = "notFound"
    PROVE  /\ mode = "down" /\ ws' = ws /\ CallHandler(Found.frame)
<1>1. mode = "down"
  <2>1. mode \in {"down", "handler"}
    BY DEF Next, EnterLayer, EnterEnvMaker, EnterRecoverer, EnterLogger, EnterAutomaticOptions, EnterRouter,
           EnterSubRouter, Enter, Routing, RouteToHandler, RouteToMux, RouteTooDeep, Route, Handler,
           CallWriteHeader, CallWrite, CallFlush, CallReadFrom, Call, HandlerReturn, HandlerPanic,
           ServeNotFound, LeaveLayer, LeaveOther, LeaveAutomaticOptions, LeaveLogger, LeaveRecoverer,
           LeaveSubRouter, Leave, LeaveMux
  <2>2. ASSUME mode = "handler" PROVE FALSE
    BY <2>2 DEF Next, EnterLayer, EnterEnvMaker, EnterRecoverer, EnterLogger, EnterAutomaticOptions, EnterRouter,
           EnterSubRouter, Enter, Routing, RouteToHandler, RouteToMux, RouteTooDeep, Route, Handler,
           CallWriteHeader, CallWrite, CallFlush, CallReadFrom, Call, HandlerReturn, HandlerPanic,
           ServeNotFound, LeaveLayer, LeaveOther, LeaveAutomaticOptions, LeaveLogger, LeaveRecoverer,
           LeaveSubRouter, Leave, LeaveMux
  <2> QED BY <2>1, <2>2
<1>2. CallHandler(Found.frame)
  BY <1>1, CallsHandler
<1> QED BY <1>1, <1>2, NestingSteps
     DEF EnterPlain, EnterRouting, EnterStripping, CallMux, RouteTooDeep, LeavePlain, LeaveStripping, Pop

LEMMA QuietKept ==
    ASSUME Shape, mode \in Modes, WriterTypes, Wrapped, Quiet, Next
    PROVE  Quiet'
<1>1. CASE mode' = "down"
  <2>1. CASE Keeping
    <3>1. mode = "down" /\ ws' = ws
      BY <1>1, <2>1 DEF Keeping
    <3> QED BY <3>1 DEF Quiet, NothingWritten
  <2>2. ASSUME NEW w, Adding(w) PROVE NothingWritten(ws')
    <3>1. /\ Len(ws') = Len(ws) + 1 /\ ws'[Len(ws) + 1] = w /\ Len(ws) \in Nat /\ Len(ws) >= 1
          /\ \A k \in 1 .. Len(ws) : ws'[k] = ws[k]
      BY <2>2, AddingFacts
    <3>2. NothingWritten(ws)
      BY <2>2 DEF Quiet, Adding
    <3>3. ws'[1] = ws[1]
      BY <3>1
    <3>4. ASSUME NEW k \in 2 .. Len(ws')
          PROVE  IF IsProxy(ws'[k]) THEN ws'[k].code = 0 ELSE ws'[k].state = "init"
      <4>1. k = Len(ws) + 1 \/ (k \in 2 .. Len(ws) /\ k \in 1 .. Len(ws))
        BY <3>1
      <4>2. CASE k = Len(ws) + 1
        BY <2>2, <3>1, <4>2 DEF Adding, Fresh
      <4>3. CASE k \in 2 .. Len(ws) /\ k \in 1 .. Len(ws)
        BY <3>1, <3>2, <4>3 DEF NothingWritten
      <4> QED BY <4>1, <4>2, <4>3
    <3> QED BY <3>2, <3>3, <3>4 DEF NothingWritten
  <2>3. ASSUME NEW t, Removing(t) PROVE FALSE
    BY <1>1, <2>3 DEF Removing
  <2> QED BY <2>1, <2>2, <2>3, WriterSteps DEF Quiet
<1>2. CASE mode' = "handler" /\ serving' = "notFound"
  BY <1>2, NotFoundCalled DEF Quiet, NothingWritten
<1> QED BY <1>1, <1>2 DEF Quiet

LEMMA UnansweredKept ==
    ASSUME Shape, mode \in Modes, Explained, Next
    PROVE  Unanswered'
<1> SUFFICES ASSUME mode' = "handler", serving' = "notFound" PROVE Takes(top.mux)' = {} /\ Told'
  BY DEF Unanswered
<1>1. mode = "down" /\ CallHandler(Found.frame)
  BY NotFoundCalled
<1>2. /\ TopStep(Found.frame) /\ Found.frame.mux = top.mux /\ path' = path /\ envs' = Found.envs
      /\ Found.match.handler = "notFound"
  BY <1>1 DEF CallHandler, Plain, TopStep, Grown
<1>3. depth' = depth /\ top' = Found.frame /\ method' = method
  BY <1>2, TopStepFrames DEF Shape
<1>4. Found.match = NotFound
  BY <1>2, FoundFacts, RouteFacts, NoRoutes DEF Matched
<1>5. top.mux \in Muxes
  BY TopFacts DEF Shape
<1>6. ASSUME Chosen(top.mux) = NotFound PROVE Takes(top.mux) = {}
  BY <1>5, <1>6, ChosenFacts, NoRoutes
<1>7. CASE MatchOf(top) = NoMatch
  <2>1. Chosen(top.mux) = NotFound /\ Found.frame = Routed /\ Found.envs = ToldEnvs
    BY <1>4, <1>7, FoundFacts
  <2>2. ASSUME Tells(top.mux) PROVE Routed.env # 0 /\ MethodsOf(top)' = Allowed(top.mux)
    <3>1. Routed.env # 0
      <4>1. Routed.env \in 1 .. MaxDepth
        BY <2>2, TellingFacts
      <4> QED BY <4>1
    <3> QED BY <1>2, <1>3, <2>1, <2>2, <3>1, TellingFacts DEF MethodsOf
  <2>3. Told'
    BY <1>2, <1>3, <2>1, <2>2, SameRouting DEF Told
  <2> QED BY <1>2, <1>3, <1>6, <2>1, <2>3, SameRouting
<1>8. CASE MatchOf(top) # NoMatch
  <2>1. MatchOf(top) = NotFound /\ Found.frame = top /\ Found.envs = envs
    BY <1>4, <1>8, FoundFacts
  <2>2. ~Inherited
    BY <1>5, <2>1, NoRoutes DEF Inherited
  <2>3. NotFound = Chosen(top.mux) /\ Told
    BY <1>1, <1>8, <2>1, <2>2 DEF Explained
  <2>4. MethodsOf(top)' = MethodsOf(top)
    BY <1>2, <1>3, <2>1 DEF MethodsOf
  <2>5. Told'
    BY <1>2, <1>3, <2>1, <2>3, <2>4, SameRouting DEF Told
  <2> QED BY <1>2, <1>3, <1>6, <2>3, <2>5, SameRouting
<1> QED BY <1>7, <1>8

\* The status 200 was sent with these methods; and who writes from now on is swallowed.
Answered(h, allowed) ==
    h[1].code = 200 /\ h[1].bytes = 0 /\ h[1].sentAllow = allowed \cup {"OPTIONS"}
Rewritten(n, h, allowed) ==
    /\ Answered(h, allowed)
    /\ \E f \in 2 .. n :
          /\ Swallows(h[f])
          /\ \A k \in f + 1 .. n : IsProxy(h[k]) => h[k].code # 0

LEMMA HeaderKept ==
    ASSUME NEW s, Writers(s), NEW valid,
           \A k \in 2 .. Len(s) : valid[s[k].at[1]] \subseteq Methods \cup {"none"}
    PROVE  Writers(WriteHeader(s, Len(s), 404, valid)) /\ Len(WriteHeader(s, Len(s), 404, valid)) = Len(s)
<1>1. 404 \in Nat
  OBVIOUS
<1>2. LET g == WriteHeader(s, Len(s), 404, valid) IN
         /\ Writers(g) /\ SameWriters(s, g) /\ g[1].flushed = s[1].flushed
         /\ Swallowers(g) \subseteq Swallowers(s) \cup Telltale(valid, s)
         /\ TrueCodes(s) => TrueCodes(g)
  BY <1>1, WriteHeaderFacts
<1> QED BY <1>2 DEF SameWriters

\* The last autoOptionsProxy that knows of methods makes a 404 a 200 that names them.
LEMMA HeaderRewritten ==
    ASSUME NEW s, Writers(s), NothingWritten(s), NEW valid, NEW allowed,
           allowed \subseteq Methods,
           \A k \in 2 .. Len(s) : s[k].kind = "options" => valid[s[k].at[1]] \in {NoMethods, allowed},
           NEW o \in 2 .. Len(s), s[o].kind = "options", valid[s[o].at[1]] # NoMethods
    PROVE  Rewritten(Len(s), WriteHeader(s, Len(s), 404, valid), allowed)
<1> DEFINE n == Len(s)
           h == WriteHeader(s, n, 404, valid)
           reached == Reached(s, n)
           rewriters == {j \in reached : Rewrites(s[j], 404, valid)}
           first == {j \in rewriters : \A i \in rewriters : i <= j}
           sent(j) == IF \E i \in first : j < i THEN 200 ELSE 404
           allow == UNION {valid[s[i].at[1]] \cup {"OPTIONS"} : i \in first}
           told == IF first = {} THEN s ELSE [s EXCEPT ![1].allow = allow]
<1>1. /\ n \in Nat /\ DOMAIN s = 1 .. n /\ 1 \in DOMAIN s /\ s[1] \in Servers1
      /\ s[1].kind = "server" /\ n >= 1 /\ ~IsProxy(s[1])
      /\ \A k \in 2 .. n : k \in DOMAIN s /\ k # 1
      /\ \A k \in 2 .. n : s[k].kind = "options" => s[k] \in Options /\ ~IsProxy(s[k])
      /\ \A k \in 2 .. n : IsProxy(s[k]) => s[k] \in Proxies
      /\ \A k \in DOMAIN s : k # 1 => k \in 2 .. n
  BY WriterFacts DEF Writers
<1>2. h = [j \in DOMAIN s |->
              IF j \in first THEN [s[j] EXCEPT !.state = "proxying"]
              ELSE IF j \in reached THEN Headed(told[j], sent(j)) ELSE told[j]]
  BY DEF WriteHeader
<1>3. reached = 1 .. n
  <2>1. \A l \in 1 .. n : Heads(s[l])
    BY <1>1 DEF NothingWritten, Heads
  <2>2. \A j \in 1 .. n : \A l \in j .. n : l \in 1 .. n
    BY <1>1
  <2> QED BY <2>1, <2>2 DEF Reached
<1>4. ASSUME NEW j \in rewriters
      PROVE  j \in 1 .. n /\ j \in 2 .. n /\ s[j].kind = "options" /\ valid[s[j].at[1]] = allowed
  <2>1. j \in 1 .. n /\ s[j].kind = "options" /\ valid[s[j].at[1]] # NoMethods
    BY <1>3, Zenon DEF Rewrites
  <2> HIDE DEF rewriters
  <2> QED BY <1>1, <2>1
<1>5. o \in rewriters
  BY <1>1, <1>3 DEF NothingWritten, Rewrites
<1> HIDE DEF rewriters, reached
<1> DEFINE f == Max(rewriters)
<1>6. f \in rewriters /\ \A j \in rewriters : j <= f
  <2>1. rewriters \subseteq 1 .. n /\ rewriters # {}
    BY <1>4, <1>5
  <2> QED BY <1>1, <2>1, GreatestExists
<1> HIDE DEF f
<1>7. first = {f}
  <2>1. ASSUME NEW j \in first PROVE j = f
    <3>1. j \in rewriters /\ f <= j /\ j <= f /\ j \in 1 .. n /\ f \in 1 .. n
      BY <1>4, <1>6
    <3> QED BY <1>1, <3>1
  <2> QED BY <1>6, <2>1
<1>8. f \in 2 .. n /\ s[f].kind = "options" /\ valid[s[f].at[1]] = allowed
  BY <1>4, <1>6
<1> HIDE DEF first
<1>9. allow = allowed \cup {"OPTIONS"}
  BY <1>7, <1>8
<1>10. allow \in Statuses
  BY <1>9 DEF Statuses
<1> HIDE DEF allow
<1>11. /\ told[1] = [s[1] EXCEPT !.allow = allow]
       /\ \A k \in 2 .. n : told[k] = s[k]
  <2>1. told = [s EXCEPT ![1] = [s[1] EXCEPT !.allow = allow]]
    BY <1>7
  <2> HIDE DEF told
  <2> QED BY <1>1, <2>1
<1> HIDE DEF told
<1>12. sent(1) = 200 /\ \A k \in f + 1 .. n : sent(k) = 404
  BY <1>1, <1>7, <1>8
<1> HIDE DEF sent
<1>13. /\ h[1] = Headed(told[1], 200)
       /\ h[f] = [s[f] EXCEPT !.state = "proxying"]
       /\ \A k \in f + 1 .. n : k \in 2 .. n /\ h[k] = Headed(s[k], 404)
  <2>1. 1 \notin first /\ f \in first /\ \A k \in f + 1 .. n : k \notin first /\ k \in 2 .. n
    BY <1>1, <1>7, <1>8
  <2>2. h[1] = Headed(told[1], 200)
    BY <1>1, <1>2, <1>3, <1>12, <2>1
  <2>3. h[f] = [s[f] EXCEPT !.state = "proxying"]
    BY <1>1, <1>2, <1>8, <2>1
  <2>4. ASSUME NEW k \in f + 1 .. n PROVE h[k] = Headed(s[k], 404)
    <3>1. k \in DOMAIN s /\ k \in 1 .. n /\ k \notin first /\ told[k] = s[k] /\ sent(k) = 404
      BY <1>1, <1>11, <1>12, <2>1
    <3> QED BY <1>2, <1>3, <3>1
  <2> QED BY <2>1, <2>2, <2>3, <2>4
<1> HIDE DEF h
<1>14. h[1].code = 200 /\ h[1].bytes = 0 /\ h[1].sentAllow = allow
  <2> DEFINE w == [s[1] EXCEPT !.allow = allow]
  <2>1. /\ w.code = 0 /\ w.bytes = 0 /\ w.allow = allow /\ w.kind = "server" /\ w \in Servers1
    BY <1>1, <1>10 DEF NothingWritten, Servers1, Statuses
  <2> HIDE DEF w
  <2>2. ~IsProxy(w) /\ w.kind # "options"
    BY <2>1 DEF IsProxy
  <2>3. Headed(w, 200) = ServerHeader(w, 200)
    BY <2>1, <2>2 DEF Headed
  <2>4. ServerHeader(w, 200) = [w EXCEPT !.code = 200, !.sentAllow = w.allow]
    BY <2>1 DEF ServerHeader
  <2>5. /\ [w EXCEPT !.code = 200, !.sentAllow = w.allow].code = 200
        /\ [w EXCEPT !.code = 200, !.sentAllow = w.allow].bytes = 0
        /\ [w EXCEPT !.code = 200, !.sentAllow = w.allow].sentAllow = allow
    BY <2>1 DEF Servers1
  <2>6. told[1] = w
    BY <1>11 DEF w
  <2>7. h[1] = [w EXCEPT !.code = 200, !.sentAllow = w.allow]
    BY <1>13, <2>3, <2>4, <2>6
  <2> QED BY <2>5, <2>7
<1>15. Swallows(h[f])
  <2>1. h[f].kind = "options" /\ h[f].state = "proxying"
    BY <1>1, <1>8, <1>13 DEF Options
  <2> QED BY <2>1 DEF Swallows
<1>16. ASSUME NEW k \in f + 1 .. n, IsProxy(h[k]) PROVE h[k].code # 0
  <2>1. k \in 2 .. n /\ h[k] = Headed(s[k], 404) /\ 404 \in Nat
    BY <1>13
  <2>2. CASE IsProxy(s[k])
    BY <1>1, <2>1, <2>2, ProxyHeaded
  <2>3. CASE ~IsProxy(s[k])
    <3>1. s[k] \in Options /\ s[k].kind = "options"
      BY <2>1, <2>3, WriterFacts
    <3>2. Headed(s[k], 404).kind = "options"
      BY <2>1, <3>1, OptionsHeaded
    <3> QED BY <1>16, <2>1, <3>2 DEF IsProxy
  <2> QED BY <2>2, <2>3
<1> QED BY <1>8, <1>9, <1>14, <1>15, <1>16 DEF h, Rewritten, Answered

\* What is written then goes no further.
LEMMA BodySwallowed ==
    ASSUME NEW h, Writers(h), NEW f \in 2 .. Len(h), Swallows(h[f]),
           \A k \in f + 1 .. Len(h) : IsProxy(h[k]) => h[k].code # 0
    PROVE  Write(h, Len(h))[1] = h[1]
<1> DEFINE n == Len(h)
           through == {j \in 1 .. n : \A i \in j .. n : ~Swallows(h[i])}
           g == WithHeaders(h, through)
<1>1. n \in Nat /\ 1 \in DOMAIN h
  BY WriterFacts
<1>2. \A j \in through : j \in f + 1 .. n
  <2> TAKE j \in through
  <2>1. j \in 1 .. n /\ f \notin j .. n
    OBVIOUS
  <2> HIDE DEF through
  <2> QED BY <1>1, <2>1
<1> HIDE DEF through
<1>3. 1 \notin through
  BY <1>1, <1>2
<1>4. ~\E i \in through : IsProxy(h[i]) /\ 1 \in Reached(h, i)
  <2> SUFFICES ASSUME NEW i \in through, IsProxy(h[i]), 1 \in Reached(h, i) PROVE FALSE
    OBVIOUS
  <2>1. i \in f + 1 .. n /\ i \in 1 .. i
    BY <1>1, <1>2
  <2>2. Heads(h[i])
    BY <2>1 DEF Reached
  <2> QED BY <2>1, <2>2 DEF Heads
<1>5. g[1] = h[1]
  BY <1>1, <1>4 DEF WithHeaders
<1>6. Write(h, n) = [j \in DOMAIN h |-> IF j \in through THEN Fed(g[j]) ELSE g[j]]
  BY DEF Write, through
<1> HIDE DEF g
<1> QED BY <1>1, <1>3, <1>5, <1>6

\* http.NotFound through an autoOptionsProxy that knows of methods.
LEMMA NotFoundAnswers ==
    ASSUME NEW s, Writers(s), NothingWritten(s), NEW valid, NEW allowed,
           allowed \subseteq Methods,
           \A k \in 2 .. Len(s) : valid[s[k].at[1]] \subseteq Methods \cup {"none"},
           \A k \in 2 .. Len(s) : s[k].kind = "options" => valid[s[k].at[1]] \in {NoMethods, allowed},
           NEW o \in 2 .. Len(s), s[o].kind = "options", valid[s[o].at[1]] # NoMethods
    PROVE  Answered(Error(s, 404, valid), allowed)
<1> DEFINE h == WriteHeader(s, Len(s), 404, valid)
<1>1. Rewritten(Len(s), h, allowed)
  <2>1. allowed \subseteq Methods \cup {"none"}
    OBVIOUS
  <2> QED BY <2>1, HeaderRewritten
<1>2. Writers(h) /\ Len(h) = Len(s)
  BY HeaderKept
<1>3. Error(s, 404, valid) = Write(h, Len(s))
  BY DEF Error
<1> HIDE DEF h
<1>4. Write(h, Len(h))[1] = h[1]
  BY <1>1, <1>2, BodySwallowed DEF Rewritten
<1> QED BY <1>1, <1>2, <1>3, <1>4 DEF Rewritten, Answered

\* A mux that has an Env shares it with those further out that have one.
LEMMA OneEnv ==
    ASSUME Shape, WriterTypes, Wrapped, Tells(top.mux), Told, NEW d \in 1 .. depth
    PROVE  Valid[d] = IF frames[d].env = 0 THEN NoMethods ELSE Allowed(top.mux)
<1>1. Valid[d] = MethodsOf(frames[d])
  BY ValidFacts
<1>2. CASE frames[d].env = 0
  BY <1>1, <1>2 DEF MethodsOf
<1>3. CASE frames[d].env # 0
  <2>1. depth \in 1 .. depth /\ d <= depth /\ top = frames[depth]
    BY TopIsDeepest
  <2>2. top.env = frames[d].env
    BY <1>3, <2>1 DEF Shape, Shared
  <2> QED BY <1>1, <1>3, <2>2 DEF MethodsOf, Told
<1> QED BY <1>2, <1>3

LEMMA ServingAnswers ==
    ASSUME Shape, WriterTypes, Wrapped, Quiet, Unanswered, ServeNotFound
    PROVE  OptionsAnswered'
<1>1. /\ mode = "handler" /\ serving = "notFound" /\ ws' = Error(ws, 404, Valid)
      /\ layers' = layers /\ method' = method /\ path' = path /\ frames' = frames
  BY DEF ServeNotFound, config
<1>2. depth' = depth /\ top' = top
  BY <1>1 DEF depth, top
<1>3. Takes(top.mux)' = Takes(top.mux) /\ Allowed(top.mux)' = Allowed(top.mux)
  BY <1>1, <1>2, SameRouting
<1> SUFFICES ASSUME Allowed(top.mux) # {}, NEW o \in DOMAIN ws', ws'[o].kind = "options",
                    frames[ws'[o].at[1]].env # 0
             PROVE  /\ ws'[1].code = 200 /\ ws'[1].bytes = 0
                    /\ ws'[1].sentAllow = Allowed(top.mux) \cup {"OPTIONS"}
  BY <1>1, <1>2, <1>3 DEF OptionsAnswered
<1>4. Takes(top.mux) = {} /\ Told /\ NothingWritten(ws)
  BY <1>1 DEF Unanswered, Quiet
<1>5. Tells(top.mux)
  BY <1>4 DEF Tells
<1>6. /\ Writers(ws)
      /\ \A k \in 2 .. Len(ws) : /\ ws[k].at[1] \in 1 .. depth
                                 /\ Valid[ws[k].at[1]] \subseteq Methods \cup {"none"}
  BY ValidFacts DEF WriterTypes
<1>7. \A k \in 2 .. Len(ws) :
         Valid[ws[k].at[1]] = IF frames[ws[k].at[1]].env = 0 THEN NoMethods ELSE Allowed(top.mux)
  BY <1>4, <1>5, <1>6, OneEnv
<1>8. Writers(ws') /\ SameWriters(ws, ws')
  <2>1. 404 \in Nat
    OBVIOUS
  <2>2. Written(ws, Error(ws, 404, Valid), Valid)
    BY <1>6, <2>1, ErrorFacts
  <2> QED BY <1>1, <2>2 DEF Written
<1>9. o \in 2 .. Len(ws) /\ ws[o].kind = "options" /\ frames[ws[o].at[1]].env # 0
  <2>1. o # 1 /\ o \in 2 .. Len(ws')
    BY <1>8, WriterFacts
  <2> QED BY <1>8, <2>1 DEF SameWriters
<1>10. Allowed(top.mux) \subseteq Methods /\ Allowed(top.mux) # NoMethods
  BY TopFacts, ChosenFacts DEF Shape
<1>11. Valid[ws[o].at[1]] # NoMethods
  BY <1>7, <1>9, <1>10
<1>12. Answered(Error(ws, 404, Valid), Allowed(top.mux))
  <2> DEFINE valid == Valid
             allowed == Allowed(top.mux)
  <2>1. /\ allowed \subseteq Methods
        /\ \A k \in 2 .. Len(ws) : valid[ws[k].at[1]] \subseteq Methods \cup {"none"}
        /\ \A k \in 2 .. Len(ws) : ws[k].kind = "options" => valid[ws[k].at[1]] \in {NoMethods, allowed}
        /\ valid[ws[o].at[1]] # NoMethods
    BY <1>6, <1>7, <1>10, <1>11
  <2> HIDE DEF valid, allowed
  <2>2. Answered(Error(ws, 404, valid), allowed)
    BY <1>4, <1>6, <1>9, <2>1, NotFoundAnswers
  <2> QED BY <2>2 DEF valid, allowed
<1> QED BY <1>1, <1>12 DEF Answered

LEMMA AnsweredKept ==
    ASSUME Shape, WriterTypes, Wrapped, Saves, PathKept, Callers, Quiet, Unanswered, OptionsAnswered, Next
    PROVE  OptionsAnswered'
<1>1. CASE mode' # "up" \/ serving' # "notFound"
  BY <1>1 DEF OptionsAnswered
<1>2. CASE mode' = "up" /\ serving' = "notFound"
  <2>1. CASE EnterLayer \/ Routing
    BY <1>2, <2>1 DEF EnterLayer, EnterEnvMaker, EnterRecoverer, EnterLogger, EnterAutomaticOptions, EnterRouter,
           EnterSubRouter, Enter, Routing, RouteToHandler, RouteToMux, RouteTooDeep, Route
  <2>2. CASE Handler
    <3>1. ServeNotFound
      BY <1>2, <2>2 DEF Handler, CallWriteHeader, CallWrite, CallFlush, CallReadFrom, Call, HandlerReturn,
                        HandlerPanic
    <3> QED BY <3>1, ServingAnswers
  <2>3. CASE LeaveLayer
    <3>1. \E l : Leave(l)
      BY <2>3 DEF LeaveLayer, LeaveOther, LeaveAutomaticOptions, LeaveLogger, LeaveRecoverer, LeaveSubRouter
    <3>2. PICK f : TopStep(f) /\ f.i = top.i - 1
      BY <2>3, <3>1, LeavesLayer
    <3>3. top' = f /\ f.mux = top.mux /\ layers' = layers
      BY <3>2, TopStepFrames DEF Shape, TopStep, Grown
    <3>4. top.i \in 0 .. Len(layers[top.mux]) /\ Len(layers[top.mux]) \in Nat
      BY TopFacts, LenProperties DEF Shape, MapTypes
    <3>5. top'.i # Len(layers'[top'.mux])
      BY <3>2, <3>3, <3>4
    <3> QED BY <3>5 DEF OptionsAnswered
  <2>4. CASE LeaveMux
    <3>1. CASE depth > 1
      <4>1. Takes(top.mux)' # {}
        BY <2>4, <3>1, PopStep, CallerTook
      <4> QED BY <4>1 DEF OptionsAnswered
    <3>2. CASE ~(depth > 1)
      BY <1>2, <2>4, <3>2 DEF LeaveMux
    <3> QED BY <3>1, <3>2
  <2> QED BY <2>1, <2>2, <2>3, <2>4 DEF Next
<1> QED BY <1>1, <1>2

-----------------------------------------------------------------------------
(* The invariant.                                                          *)

LEMMA InitAnswer == ASSUME Init PROVE AnswerInv
<1>1. IInv
  BY InitIInv
<1>2. /\ depth = 1 /\ top.env = 0
  BY InitFacts
<1>3. mode = "down" /\ serving = "nil"
  BY DEF Init
<1>4. Explained
  BY <1>2 DEF Explained, MatchOf
<1>5. Callers
  BY <1>2 DEF Callers
<1>6. Quiet
  <2>1. PICK s \in Servers : ws = <<Server(s)>>
    BY DEF Init
  <2>2. ws[1].bytes = 0
    BY <2>1 DEF Server
  <2> QED BY <1>1, <1>3, <2>2 DEF Quiet, NothingWritten, IInv, Silent
<1>7. Unanswered /\ OptionsAnswered
  BY <1>3 DEF Unanswered, OptionsAnswered
<1> QED BY <1>1, <1>4, <1>5, <1>6, <1>7 DEF AnswerInv

LEMMA AnswerStays == ASSUME AnswerInv, UNCHANGED vars PROVE AnswerInv'
<1>1. IInv'
  BY IInvStays DEF AnswerInv
<1>2. /\ layers' = layers /\ method' = method /\ path' = path /\ envs' = envs /\ params' = params
      /\ frames' = frames /\ ws' = ws /\ mode' = mode /\ serving' = serving
  BY DEF vars, config, maps
<1>3. depth' = depth /\ top' = top
  BY <1>2 DEF depth, top
<1>4. MatchOf(top)' = MatchOf(top) /\ MethodsOf(top)' = MethodsOf(top) /\ Suffix(top)' = Suffix(top)
  BY <1>2, <1>3 DEF MatchOf, MethodsOf, Suffix
<1>5. /\ Chosen(top.mux)' = Chosen(top.mux) /\ Takes(top.mux)' = Takes(top.mux)
      /\ Allowed(top.mux)' = Allowed(top.mux) /\ Tells(top.mux)' = Tells(top.mux)
  BY <1>2, <1>3, SameRouting
<1>6. Told' <=> Told
  BY <1>3, <1>4, <1>5 DEF Told
<1>7. Inherited' <=> Inherited
  BY <1>2, <1>3, <1>4 DEF Inherited, Entered
<1>8. Explained'
  BY <1>2, <1>3, <1>4, <1>5, <1>6, <1>7 DEF AnswerInv, Explained
<1>9. Callers'
  <2>1. Stuck' <=> Stuck
    BY <1>2, <1>3, <1>4 DEF Stuck
  <2>2. \A d : Took(d)' <=> Took(d)
    BY <1>2 DEF Took, Suits
  <2> QED BY <1>2, <1>3, <2>1, <2>2 DEF AnswerInv, Callers
<1>10. Quiet'
  BY <1>2 DEF AnswerInv, Quiet, NothingWritten
<1>11. Unanswered'
  BY <1>2, <1>3, <1>5, <1>6 DEF AnswerInv, Unanswered
<1>12. OptionsAnswered'
  BY <1>2, <1>3, <1>5 DEF AnswerInv, OptionsAnswered
<1> QED BY <1>1, <1>8, <1>9, <1>10, <1>11, <1>12 DEF AnswerInv

LEMMA AnswerNext == AnswerInv /\ IInv' /\ [Next]_vars => AnswerInv'
<1> SUFFICES ASSUME AnswerInv, IInv', [Next]_vars PROVE AnswerInv'
  OBVIOUS
<1>1. CASE UNCHANGED vars
  BY <1>1, AnswerStays
<1>2. CASE Next
  <2>1. Shape /\ mode \in Modes /\ WriterTypes /\ Wrapped /\ Saves /\ PathKept
    BY DEF AnswerInv, IInv, Shape
  <2>2. Explained /\ Callers /\ Quiet /\ Unanswered /\ OptionsAnswered
    BY DEF AnswerInv
  <2>3. Explained' /\ Callers'
    BY <1>2, <2>1, <2>2, ExplainedKept, CallersKept
  <2>4. Quiet' /\ Unanswered' /\ OptionsAnswered'
    BY <1>2, <2>1, <2>2, QuietKept, UnansweredKept, AnsweredKept
  <2> QED BY <2>3, <2>4 DEF AnswerInv
<1> QED BY <1>1, <1>2

(* An OPTIONS request for a known path that no route takes is answered by  *)
(* http.NotFound through the autoOptionsProxy (middleware/options.go) with *)
(* 200, no body, and the methods the innermost mux allows, at any depth    *)
(* and whatever other writers stand between: those methods are in the Env  *)
(* of every mux that has one, and the only 404 is that of NotFound, since  *)
(* a mux is called by a route that takes the method.                       *)
THEOREM OptionsAreAnswered == Spec => []OptionsAnswered
<1>1. Init => AnswerInv
  BY InitAnswer
<1>2. AnswerInv /\ IInv' /\ [Next]_vars => AnswerInv'
  BY AnswerNext
<1>3. AnswerInv => OptionsAnswered
  BY DEF AnswerInv
<1> QED BY <1>1, <1>2, <1>3, RequestInvariant, PTL DEF Spec

-----------------------------------------------------------------------------
(* No endless recursion.  A mux is called with a path, and calls the next  *)
(* with that path or, if it strips, with a shorter one.  Muxes that call   *)
(* each other with less and less of something do not do so for ever.       *)

\* Whoever mounts a mux gives away some of the path, and unsets or routes again.
Lossy ==
    \A r \in Mounts :
        /\ r.tail # "exact" /\ r.prefix # <<>>
        /\ Contains(layers[r.handler], "SubRouter") \/ Contains(layers[r.handler], "Router")

\* What a mux calls has less fuel, whatever of the path it is called with.
Burns(fuel) ==
    \A m \in Muxes : \A i \in DOMAIN Routes[m] :
        Routes[m][i].handler \in Muxes =>
            \A n \in Nat : \A k \in 1 .. n :
                k < n \/ m = Outer \/ ~Contains(layers[m], "SubRouter") =>
                    fuel[Routes[m][i].handler][k] < fuel[m][n]
Sparing(fuel) == Lossy /\ StripsFirst /\ Burns(fuel)

FuelAt(fuel, d) == fuel[frames[d].mux][Len(frames[d].called.path)]
Fuelled(fuel) ==
    /\ fuel \in [Muxes -> [Nat -> Nat]]
    /\ \A r \in Requests : fuel[Outer][Len(r.path)] < MaxDepth

Rooted(fuel) == frames[1].mux = Outer /\ FuelAt(fuel, 1) < MaxDepth

RestShorter ==
    Lossy => \A d \in 2 .. depth : Len(frames[d].called.rest) < Len(frames[d].called.path)

\* MixedMounts, of the first n muxes.
MixedTo(n) ==
    \E d, e \in 1 .. n : d < e /\ frames[d].called.tail = "*" /\ frames[e].called.tail = "_"

Descending(fuel) ==
    Sparing(fuel) =>
        \A e \in 1 .. depth : ~MixedTo(e) =>
            \A d \in 1 .. e : FuelAt(fuel, e) + (e - d) <= FuelAt(fuel, d)

Ends(fuel) == Sparing(fuel) /\ mode = "overflow" => MixedMounts

LoopInv(fuel) == AnswerInv /\ Rooted(fuel) /\ RestShorter /\ Descending(fuel) /\ Ends(fuel)

\* The paths that muxes are called with.
LEMMA PathLengths ==
    ASSUME Shape
    PROVE  /\ Len(path) \in Nat /\ \A d \in 1 .. depth : /\ frames[d].mux \in Muxes
                                                         /\ Len(frames[d].called.path) \in Nat
           /\ \A r \in Mounts : Len(r.prefix) \in Nat /\ (r.prefix # <<>> => Len(r.prefix) >= 1)
<1>1. Len(path) \in Nat
  BY LenProperties DEF Shape, MapTypes, Paths
<1>2. ASSUME NEW d \in 1 .. depth PROVE frames[d].mux \in Muxes /\ Len(frames[d].called.path) \in Nat
  <2>1. frames[d] \in Frames
    BY ElementOfSeq DEF Shape, FrameTypes, depth
  <2>2. frames[d].mux \in Muxes /\ frames[d].called.path \in Paths
    BY <2>1 DEF Frames, Calls
  <2> QED BY <2>2, LenProperties DEF Paths
<1>3. ASSUME NEW r \in Mounts PROVE Len(r.prefix) \in Nat /\ (r.prefix # <<>> => Len(r.prefix) >= 1)
  <2>1. r.prefix \in Seq(Segments)
    BY MountFacts, RouteFacts DEF Paths
  <2>2. Len(r.prefix) \in Nat /\ (Len(r.prefix) = 0 => r.prefix = <<>>)
    BY <2>1, LenProperties, EmptySeq
  <2> QED BY <2>2
<1> QED BY <1>1, <1>2, <1>3

\* A mux that routes is not stuck.
LEMMA NoneStuck ==
    ASSUME IInv, Lossy, RoutesNow PROVE ~Stuck
<1> SUFFICES ASSUME Stuck PROVE FALSE
  OBVIOUS
<1>1. Shape /\ depth \in 2 .. depth /\ top = frames[depth]
  BY TopIsDeepest DEF IInv, Shape, Stuck
<1>2. PICK r \in Mounts : top.mux = r.handler
  BY <1>1 DEF IInv, Mounted
<1>3. Contains(layers[top.mux], "SubRouter")
  BY <1>2 DEF Lossy, Stuck
<1>4. Entered(depth, "SubRouter")
  BY <1>1, <1>3, ContainsLayer
<1>5. Suffixed
  BY DEF Lossy, Suffixed
<1>6. top.saved # {}
  BY <1>1, <1>4, <1>5 DEF IInv, SuffixFound, Entered
<1> QED BY <1>6 DEF Stuck

\* A mux calls the next with less fuel.
LEMMA CalleeHasLess ==
    ASSUME IInv, Explained, NEW fuel, Rooted(fuel), RestShorter, Sparing(fuel), ~MixedMounts,
           mode = "down", Found.match.handler \in Muxes, RoutesNow
    PROVE  fuel[Found.match.handler][Len(path)] < FuelAt(fuel, depth)
<1>1. Shape /\ Lossy /\ StripsFirst /\ Suffixed /\ depth \in 1 .. depth /\ top = frames[depth] /\ depth \in Nat
  BY TopIsDeepest DEF IInv, Shape, Sparing, Lossy, Suffixed
<1> DEFINE m == top.mux
           r == Found.match
           k == Len(path)
           n == Len(top.called.path)
<1>2. /\ r \in Mounts /\ TakenAt(m) \in DOMAIN Routes[m] /\ r = Routes[m][TakenAt(m)] /\ Suits(r, path)
  BY <1>1, NoneStuck, CallerTakes
<1>3. m \in Muxes /\ k \in Nat /\ n \in Nat /\ Len(r.prefix) \in Nat
  BY <1>1, <1>2, PathLengths
<1>4. k > 0
  <2>1. k > Len(r.prefix)
    BY <1>1, <1>2 DEF Suits, Lossy
  <2> QED BY <1>3, <2>1
<1>5. k <= n /\ (k < n \/ m = Outer \/ ~Contains(layers[m], "SubRouter"))
  <2>1. top.saved = {} => k = n
    BY <1>1, TopPath DEF IInv
  <2>2. CASE depth = 1
    <3>1. top.saved = {}
      BY <1>1, <2>2 DEF IInv, Tied, OuterBare
    <3> QED BY <1>1, <1>3, <2>1, <2>2, <3>1 DEF Rooted
  <2>3. CASE depth # 1 /\ Contains(layers[m], "SubRouter")
    <3>1. depth \in 2 .. depth /\ depth > 1
      BY <1>1, <2>3
    <3>2. Entered(depth, "SubRouter")
      BY <1>1, <2>3, ContainsLayer
    <3>3. top.saved # {}
      BY <1>1, <3>1, <3>2 DEF IInv, SuffixFound, Entered
    <3>4. path = top.called.rest
      BY <1>1, <3>1, <3>3 DEF IInv, Tied, SuffixRight
    <3> QED BY <1>1, <1>3, <3>1, <3>4 DEF RestShorter
  <2>4. CASE ~Contains(layers[m], "SubRouter")
    <3>1. top.saved = {}
      <4> SUFFICES ASSUME NEW old \in top.saved PROVE FALSE
        OBVIOUS
      <4>1. old.i \in 1 .. top.i /\ layers[m][old.i] = "SubRouter"
        BY <1>1, TopSaves DEF IInv
      <4>2. Entered(depth, "SubRouter")
        BY <1>1, <4>1 DEF Entered
      <4> QED BY <1>1, <2>4, <4>2, ContainsLayer
    <3> QED BY <1>3, <2>1, <2>4, <3>1
  <2> QED BY <2>2, <2>3, <2>4
<1>6. k \in 1 .. n
  BY <1>3, <1>4, <1>5
<1>7. fuel[r.handler][k] < fuel[m][n]
  BY <1>2, <1>3, <1>5, <1>6 DEF Sparing, Burns
<1> QED BY <1>1, <1>7 DEF FuelAt

-----------------------------------------------------------------------------
(* The fuel, step by step.                                                 *)

\* No other step makes a mux, or changes what one was called with.
LEMMA OneMore ==
    ASSUME Shape, mode \in Modes, Next
    PROVE  /\ layers' = layers
           /\ \/ /\ depth' \in 1 .. depth
                 /\ \A d \in 1 .. depth' : /\ frames'[d].mux = frames[d].mux
                                           /\ frames'[d].called = frames[d].called
              \/ (\E e : CallMux(e)) /\ RoutesNow
           /\ mode' = "overflow" => RouteTooDeep
<1>1. layers' = layers /\ depth \in 1 .. depth /\ depth \in Nat
  BY Running, TopIsDeepest DEF config
<1>2. ASSUME NEW f, TopStep(f)
      PROVE  /\ depth' \in 1 .. depth
             /\ \A d \in 1 .. depth' : frames'[d].mux = frames[d].mux /\ frames'[d].called = frames[d].called
  BY <1>1, <1>2, TopStepFrames DEF Shape
<1>3. CASE Pop
  <2>1. depth' = depth - 1 /\ depth > 1 /\ mode' # "overflow" /\ \A d \in 1 .. depth - 1 : frames'[d] = frames[d]
    BY <1>3 DEF Pop
  <2> QED BY <1>1, <2>1
<1>4. CASE RouteTooDeep \/ (Stays /\ mode \notin {"down", "overflow"})
  <2>1. frames' = frames /\ depth' = depth
    BY <1>4 DEF RouteTooDeep, Stays, depth
  <2>2. mode' = "overflow" => RouteTooDeep
    BY DEF Next, EnterLayer, EnterEnvMaker, EnterRecoverer, EnterLogger, EnterAutomaticOptions, EnterRouter,
           EnterSubRouter, Enter, Routing, RouteToHandler, RouteToMux, Route, Handler,
           CallWriteHeader, CallWrite, CallFlush, CallReadFrom, Call, HandlerReturn, HandlerPanic,
           ServeNotFound, LeaveLayer, LeaveOther, LeaveAutomaticOptions, LeaveLogger, LeaveRecoverer,
           LeaveSubRouter, Leave, LeaveMux
  <2> QED BY <1>1, <2>1, <2>2
<1> QED BY <1>1, <1>2, <1>3, <1>4, NestingSteps
     DEF EnterPlain, EnterRouting, EnterStripping, CallHandler, CallMux, LeavePlain, LeaveStripping, Plain

LEMMA SameSparing ==
    ASSUME layers' = layers, NEW fuel
    PROVE  (Lossy' <=> Lossy) /\ (Sparing(fuel)' <=> Sparing(fuel))
BY DEF Sparing, Lossy, StripsFirst, Burns

\* What holds of the muxes further out still does.
LEMMA SameFuel ==
    ASSUME Shape, NEW fuel, NEW n \in 1 .. depth,
           \A d \in 1 .. n : frames'[d].mux = frames[d].mux /\ frames'[d].called = frames[d].called
    PROVE  /\ \A d \in 1 .. n : FuelAt(fuel, d)' = FuelAt(fuel, d)
           /\ \A e \in 1 .. n : MixedTo(e)' <=> MixedTo(e)
<1>1. \A d \in 1 .. n : FuelAt(fuel, d)' = FuelAt(fuel, d)
  BY DEF FuelAt
<1>2. ASSUME NEW e \in 1 .. n PROVE MixedTo(e)' <=> MixedTo(e)
  <2>1. \A d \in 1 .. e : frames'[d].called.tail = frames[d].called.tail
    BY TopIsDeepest
  <2> QED BY <2>1, Zenon DEF MixedTo
<1> QED BY <1>1, <1>2

LEMMA RootKept ==
    ASSUME Shape, mode \in Modes, NEW fuel, Rooted(fuel), Next PROVE Rooted(fuel)'
<1>1. frames'[1].mux = frames[1].mux /\ frames'[1].called = frames[1].called
  <2>1. 1 \in 1 .. depth /\ (depth' \in 1 .. depth => 1 \in 1 .. depth')
    BY TopIsDeepest
  <2> QED BY <2>1, OneMore, CallMuxFrames
<1> QED BY <1>1 DEF Rooted, FuelAt

\* How much of the path a pattern leaves.
LEMMA RestLength ==
    ASSUME Shape, NEW r \in Mounts, Len(r.prefix) < Len(path)
    PROVE  Len(Rest(r)) = Len(path) - Len(r.prefix)
<1>1. path \in Seq(Segments) /\ Len(path) \in Nat /\ Len(r.prefix) \in Nat
  BY PathLengths DEF Shape, MapTypes, Paths
<1>2. \A i \in Len(r.prefix) + 1 .. Len(path) : path[i] \in Segments
  <2>1. \A i \in Len(r.prefix) + 1 .. Len(path) : i \in 1 .. Len(path)
    BY <1>1
  <2> QED BY <1>1, <2>1, ElementOfSeq
<1>3. Len(Rest(r)) = IF Len(r.prefix) + 1 <= Len(path) THEN Len(path) - (Len(r.prefix) + 1) + 1 ELSE 0
  <2>1. Len(r.prefix) + 1 \in Int /\ Len(path) \in Int
    BY <1>1
  <2> DEFINE m == Len(r.prefix) + 1
             n == Len(path)
  <2> HIDE DEF m, n
  <2>2. m \in Int /\ n \in Int /\ \A i \in m .. n : path[i] \in Segments
    BY <1>2, <2>1 DEF m, n
  <2>3. Len(SubSeq(path, m, n)) = IF m <= n THEN n - m + 1 ELSE 0
    BY <2>2, SubSeqProperties
  <2> QED BY <2>3 DEF m, n, Rest
<1> DEFINE l == Len(r.prefix)
           p == Len(path)
<1>4. l \in Nat /\ p \in Nat /\ l < p
  BY <1>1
<1> HIDE DEF l, p
<1>5. l + 1 <= p /\ p - (l + 1) + 1 = p - l
  BY <1>4
<1> QED BY <1>3, <1>5 DEF l, p

LEMMA RestKept ==
    ASSUME IInv, Explained, RestShorter, Next PROVE RestShorter'
<1>0. Shape /\ mode \in Modes
  BY DEF IInv, Shape
<1>1. layers' = layers /\ (Lossy' <=> Lossy)
  BY <1>0, OneMore, SameSparing
<1> SUFFICES ASSUME Lossy, NEW d \in 2 .. depth'
             PROVE  Len(frames'[d].called.rest) < Len(frames'[d].called.path)
  BY <1>1 DEF RestShorter
<1>2. depth \in Nat
  BY <1>0, TopIsDeepest
<1>3. CASE depth' \in 1 .. depth /\ \A c \in 1 .. depth' : frames'[c].called = frames[c].called
  <2>1. d \in 1 .. depth' /\ d \in 2 .. depth
    BY <1>2, <1>3
  <2> QED BY <1>3, <2>1 DEF RestShorter
<1>4. ASSUME NEW e, CallMux(e), RoutesNow PROVE Len(frames'[d].called.rest) < Len(frames'[d].called.path)
  <2>1. /\ depth' = depth + 1 /\ frames'[depth + 1] = e
        /\ \A c \in 1 .. depth : frames'[c].called = frames[c].called
    BY <1>0, <1>4, CallMuxFrames
  <2>2. CASE d = depth + 1
    <3> DEFINE r == Found.match
    <3>1. r \in Mounts /\ r.tail # "exact" /\ r.prefix # <<>> /\ e.called.path = path /\ e.called.rest = Rest(r)
      BY <1>4 DEF CallMux, Lossy
    <3>2. Len(r.prefix) \in Nat /\ Len(r.prefix) >= 1 /\ Len(path) \in Nat
      BY <1>0, <3>1, PathLengths
    <3>3. Len(path) > Len(r.prefix)
      <4>1. mode = "down" /\ r.handler \in Muxes
        BY <1>4, <3>1, MountFacts DEF CallMux
      <4>2. Suits(r, path)
        BY <1>0, <1>4, <4>1, NoneStuck, CallerTakes
      <4> QED BY <3>1, <4>2 DEF Suits
    <3>4. Len(Rest(r)) = Len(path) - Len(r.prefix)
      BY <1>0, <3>1, <3>2, <3>3, RestLength
    <3>5. Len(Rest(r)) < Len(path)
      BY <3>2, <3>4
    <3> QED BY <2>1, <2>2, <3>1, <3>5
  <2>3. CASE d # depth + 1
    <3>1. d \in 1 .. depth /\ d \in 2 .. depth
      BY <1>2, <2>1, <2>3
    <3> QED BY <2>1, <3>1 DEF RestShorter
  <2> QED BY <2>2, <2>3
<1> QED BY <1>0, <1>3, <1>4, OneMore

LEMMA DescendingKept ==
    ASSUME IInv, Explained, NEW fuel, Fuelled(fuel), Rooted(fuel), RestShorter, Descending(fuel), Next
    PROVE  Descending(fuel)'
<1>1. Shape /\ mode \in Modes
  BY DEF IInv, Shape
<1>2. layers' = layers /\ (Sparing(fuel)' <=> Sparing(fuel)) /\ depth \in Nat /\ depth \in 1 .. depth
  BY <1>1, OneMore, SameSparing, TopIsDeepest
<1> SUFFICES ASSUME Sparing(fuel), NEW e \in 1 .. depth', ~MixedTo(e)', NEW d \in 1 .. e
             PROVE  FuelAt(fuel, e)' + (e - d) <= FuelAt(fuel, d)'
  BY <1>2 DEF Descending
<1>3. ASSUME NEW n \in 1 .. depth, e \in 1 .. n,
             \A c \in 1 .. n : frames'[c].mux = frames[c].mux /\ frames'[c].called = frames[c].called
      PROVE  FuelAt(fuel, e)' + (e - d) <= FuelAt(fuel, d)'
  <2>1. e \in 1 .. depth /\ d \in 1 .. n
    BY <1>2, <1>3
  <2>2. FuelAt(fuel, e)' = FuelAt(fuel, e) /\ FuelAt(fuel, d)' = FuelAt(fuel, d) /\ ~MixedTo(e)
    BY <1>1, <1>3, <2>1, SameFuel
  <2> QED BY <2>1, <2>2 DEF Descending
<1>4. ASSUME NEW f, CallMux(f), RoutesNow PROVE FuelAt(fuel, e)' + (e - d) <= FuelAt(fuel, d)'
  <2>1. /\ depth' = depth + 1 /\ frames'[depth + 1] = f
        /\ \A c \in 1 .. depth : frames'[c].mux = frames[c].mux /\ frames'[c].called = frames[c].called
    BY <1>1, <1>4, CallMuxFrames
  <2>2. CASE e # depth + 1
    <3>1. e \in 1 .. depth
      BY <1>2, <2>1, <2>2
    <3> QED BY <1>2, <1>3, <2>1, <3>1
  <2>3. CASE e = depth + 1
    <3>1. ~MixedTo(depth) /\ ~MixedMounts
      <4>1. \A c \in 1 .. depth : c \in 1 .. e
        BY <1>2, <2>3
      <4>2. ~\E a, b \in 1 .. depth :
                a < b /\ frames'[a].called.tail = "*" /\ frames'[b].called.tail = "_"
        BY <4>1, Zenon DEF MixedTo
      <4>3. ~MixedTo(depth)
        BY <2>1, <4>2, Zenon DEF MixedTo
      <4> QED BY <4>3, Zenon DEF MixedTo, MixedMounts
    <3>2. mode = "down" /\ Found.match.handler \in Muxes /\ f.mux = Found.match.handler /\ f.called.path = path
      BY <1>4, MountFacts DEF CallMux
    <3>3. fuel[f.mux][Len(path)] < FuelAt(fuel, depth)
      BY <1>4, <3>1, <3>2, CalleeHasLess
    <3>4. FuelAt(fuel, e)' = fuel[f.mux][Len(path)]
      BY <2>1, <2>3, <3>2 DEF FuelAt
    <3>5. fuel[f.mux][Len(path)] \in Nat /\ \A c \in 1 .. depth : FuelAt(fuel, c) \in Nat
      BY <1>1, <3>2, PathLengths DEF Fuelled, FuelAt
    <3>6. CASE d = e
      <4>1. FuelAt(fuel, d)' = fuel[f.mux][Len(path)] /\ e - d = 0
        BY <1>2, <2>3, <3>4, <3>6
      <4> QED BY <3>4, <3>5, <4>1
    <3>7. CASE d # e
      <4>1. d \in 1 .. depth
        BY <1>2, <2>3, <3>7
      <4>2. FuelAt(fuel, d)' = FuelAt(fuel, d)
        BY <2>1, <4>1 DEF FuelAt
      <4>3. FuelAt(fuel, depth) + (depth - d) <= FuelAt(fuel, d)
        BY <1>2, <3>1, <4>1 DEF Descending
      <4>4. e - d = (depth - d) + 1
        BY <1>2, <2>3, <4>1
      <4> QED BY <1>2, <3>3, <3>4, <3>5, <4>1, <4>2, <4>3, <4>4
    <3> QED BY <3>6, <3>7
  <2> QED BY <2>2, <2>3
<1> QED BY <1>1, <1>3, <1>4, OneMore

\* With fuel for fewer muxes than the stack has room for, it does not overflow.
LEMMA EndsKept ==
    ASSUME IInv, Explained, NEW fuel, Fuelled(fuel), Rooted(fuel), RestShorter, Descending(fuel), Next
    PROVE  Ends(fuel)'
<1>1. Shape /\ mode \in Modes
  BY DEF IInv, Shape
<1>2. Sparing(fuel)' <=> Sparing(fuel)
  BY <1>1, OneMore, SameSparing
<1> SUFFICES ASSUME Sparing(fuel), mode' = "overflow", ~MixedMounts' PROVE FALSE
  BY <1>2 DEF Ends
<1>3. RouteTooDeep
  BY <1>1, OneMore
<1>4. /\ mode = "down" /\ RoutesNow /\ Found.match.handler \in Muxes /\ depth = MaxDepth
      /\ frames' = frames
  BY <1>3 DEF RouteTooDeep, Route, RoutesNow
<1>5. ~MixedMounts /\ ~MixedTo(depth)
  BY <1>4, Zenon DEF MixedMounts, MixedTo, depth
<1>6. fuel[Found.match.handler][Len(path)] < FuelAt(fuel, depth)
  BY <1>4, <1>5, CalleeHasLess
<1>7. 1 \in 1 .. depth /\ depth \in 1 .. depth /\ depth \in Nat
  BY <1>1, TopIsDeepest
<1>8. FuelAt(fuel, depth) + (depth - 1) <= FuelAt(fuel, 1)
  BY <1>5, <1>7 DEF Descending
<1>9. /\ fuel[Found.match.handler][Len(path)] \in Nat
      /\ FuelAt(fuel, 1) \in Nat /\ FuelAt(fuel, depth) \in Nat
  BY <1>1, <1>4, <1>7, PathLengths DEF Fuelled, FuelAt
<1> QED BY <1>4, <1>6, <1>7, <1>8, <1>9 DEF Rooted

LEMMA InitLoop == ASSUME Init, NEW fuel, Fuelled(fuel) PROVE LoopInv(fuel)
<1>1. AnswerInv
  BY InitAnswer
<1>2. /\ depth = 1 /\ top = frames[1] /\ top.mux = Outer /\ top.called.path = path
  BY InitFacts
<1>3. mode = "down" /\ \E r \in Requests : path = r.path
  BY DEF Init
<1>4. Rooted(fuel)
  BY <1>2, <1>3 DEF Rooted, FuelAt, Fuelled
<1>5. RestShorter /\ Ends(fuel)
  BY <1>2, <1>3 DEF RestShorter, Ends
<1>6. Descending(fuel)
  <2>1. Shape
    BY <1>1 DEF AnswerInv, IInv, Shape
  <2>2. FuelAt(fuel, 1) \in Nat
    BY <1>2, <2>1, PathLengths DEF FuelAt, Fuelled
  <2>3. \A e \in 1 .. depth : \A d \in 1 .. e : e = 1 /\ d = 1
    BY <1>2
  <2>4. FuelAt(fuel, 1) + (1 - 1) <= FuelAt(fuel, 1)
    BY <2>2
  <2> QED BY <2>3, <2>4 DEF Descending
<1> QED BY <1>1, <1>4, <1>5, <1>6 DEF LoopInv

LEMMA LoopStays ==
    ASSUME IInv, NEW fuel, Rooted(fuel), RestShorter, Descending(fuel), Ends(fuel), UNCHANGED vars
    PROVE  Rooted(fuel)' /\ RestShorter' /\ Descending(fuel)' /\ Ends(fuel)'
<1>1. layers' = layers /\ frames' = frames /\ mode' = mode /\ depth' = depth
  BY DEF vars, config, depth
<1>2. (Lossy' <=> Lossy) /\ (Sparing(fuel)' <=> Sparing(fuel))
  BY <1>1, SameSparing
<1>3. \A d : FuelAt(fuel, d)' = FuelAt(fuel, d)
  BY <1>1 DEF FuelAt
<1>4. (\A e : MixedTo(e)' <=> MixedTo(e)) /\ (MixedMounts' <=> MixedMounts)
  BY <1>1 DEF MixedTo, MixedMounts
<1>5. Rooted(fuel)' /\ RestShorter'
  BY <1>1, <1>2, <1>3 DEF Rooted, RestShorter
<1>6. Descending(fuel)' /\ Ends(fuel)'
  BY <1>1, <1>2, <1>3, <1>4 DEF Descending, Ends
<1> QED BY <1>5, <1>6

LEMMA LoopNext ==
    ASSUME NEW fuel, Fuelled(fuel)
    PROVE  LoopInv(fuel) /\ AnswerInv' /\ [Next]_vars => LoopInv(fuel)'
<1> SUFFICES ASSUME LoopInv(fuel), AnswerInv', [Next]_vars PROVE LoopInv(fuel)'
  OBVIOUS
<1>1. /\ AnswerInv /\ IInv /\ Explained /\ Shape /\ mode \in Modes
      /\ Rooted(fuel) /\ RestShorter /\ Descending(fuel) /\ Ends(fuel)
  BY DEF LoopInv, AnswerInv, IInv, Shape
<1>2. Rooted(fuel)' /\ RestShorter' /\ Descending(fuel)' /\ Ends(fuel)'
  <2>1. CASE UNCHANGED vars
    BY <1>1, <2>1, LoopStays
  <2>2. CASE Next
    BY <1>1, <2>2, RootKept, RestKept, DescendingKept, EndsKept
  <2> QED BY <2>1, <2>2
<1> QED BY <1>2 DEF LoopInv

LEMMA LoopEnds ==
    ASSUME NEW fuel, Fuelled(fuel)
    PROVE  LoopInv(fuel) => (Sparing(fuel) => NoLoop)
<1> SUFFICES ASSUME LoopInv(fuel), Sparing(fuel), ~MixedMounts
             PROVE  /\ mode # "overflow"
                    /\ \A d, e \in 1 .. depth :
                          /\ frames[d].mux = frames[e].mux
                          /\ frames[d].called.path = frames[e].called.path
                          => d = e
  BY DEF NoLoop
<1>1. Shape /\ mode # "overflow" /\ depth \in Nat
  BY TopIsDeepest DEF LoopInv, Ends, AnswerInv, IInv, Shape
<1>2. ASSUME NEW d \in 1 .. depth, NEW e \in 1 .. depth, d < e,
             frames[d].mux = frames[e].mux, frames[d].called.path = frames[e].called.path
      PROVE  FALSE
  <2>1. \A c \in 1 .. e : c \in 1 .. depth
    BY <1>1
  <2>2. ~MixedTo(e) /\ d \in 1 .. e
    <3>1. ~MixedTo(e)
      BY <2>1, Zenon DEF MixedTo, MixedMounts
    <3> QED BY <1>1, <1>2, <3>1
  <2>3. FuelAt(fuel, e) + (e - d) <= FuelAt(fuel, d)
    BY <2>2 DEF LoopInv, Descending
  <2>4. FuelAt(fuel, e) = FuelAt(fuel, d) /\ FuelAt(fuel, d) \in Nat
    BY <1>1, <1>2, PathLengths DEF FuelAt, Fuelled
  <2> QED BY <1>1, <1>2, <2>3, <2>4
<1>3. ASSUME NEW d \in 1 .. depth, NEW e \in 1 .. depth,
             frames[d].mux = frames[e].mux, frames[d].called.path = frames[e].called.path
      PROVE  d = e
  <2>1. d \in Nat /\ e \in Nat
    BY <1>1
  <2>2. ~(d < e) /\ ~(e < d)
    BY <1>2, <1>3
  <2> QED BY <2>1, <2>2
<1> QED BY <1>1, <1>3

(* Muxes that give away some of the path or come in some order, so that    *)
(* there is a fuel of which each has more than those it calls, do not call *)
(* each other for ever (mux.go:115-117), if every mux strips before it     *)
(* routes and none found by a regular expression is in one found by a      *)
(* string pattern.                                                         *)
THEOREM SparingMuxesEnd ==
    ASSUME NEW fuel, Fuelled(fuel)
    PROVE  Spec => [](Sparing(fuel) => NoLoop)
<1>1. Init => LoopInv(fuel)
  BY InitLoop
<1>2. LoopInv(fuel) /\ AnswerInv' /\ [Next]_vars => LoopInv(fuel)'
  BY LoopNext
<1>3. LoopInv(fuel) => (Sparing(fuel) => NoLoop)
  BY LoopEnds
<1>4. Init => AnswerInv
  BY InitAnswer
<1>5. AnswerInv /\ IInv' /\ [Next]_vars => AnswerInv'
  BY AnswerNext
<1> QED BY <1>1, <1>2, <1>3, <1>4, <1>5, RequestInvariant, PTL DEF Spec

(* In particular, a request meets no more muxes than its path has segments *)
(* and one, if each is found by a pattern with a prefix and has SubRouter  *)
(* before it routes, and the outermost is nobody's handler.                *)
THEOREM StrippingMuxesEnd ==
    ASSUME \A r \in Requests : Len(r.path) < MaxDepth,
           \A r \in Mounts : r.tail # "exact" /\ r.prefix # <<>> /\ r.handler # Outer
    PROVE  Spec => [](/\ StripsFirst
                      /\ \A m \in Muxes \ {Outer} : Contains(layers[m], "SubRouter")
                      => NoLoop)
<1> DEFINE left(m, n) == IF m = Outer THEN n ELSE IF n = 0 THEN 0 ELSE n - 1
           fuel == [m \in Muxes |-> [n \in Nat |-> left(m, n)]]
<1>1. \A m \in Muxes : \A n \in Nat : fuel[m][n] = left(m, n)
  OBVIOUS
<1>2. fuel \in [Muxes -> [Nat -> Nat]]
  <2>1. \A m \in Muxes : \A n \in Nat : left(m, n) \in Nat
    OBVIOUS
  <2> HIDE DEF left
  <2> QED BY <2>1
<1> HIDE DEF fuel
<1>3. Fuelled(fuel)
  <2>1. ASSUME NEW r \in Requests PROVE fuel[Outer][Len(r.path)] < MaxDepth
    <3>1. Len(r.path) \in Nat /\ Outer \in Muxes
      BY RequestAssumption, LenProperties
    <3> QED BY <1>1, <3>1
  <2> QED BY <1>2, <2>1 DEF Fuelled
<1>4. /\ Init => AnswerInv /\ LoopInv(fuel)
      /\ AnswerInv /\ IInv' /\ [Next]_vars => AnswerInv'
      /\ LoopInv(fuel) /\ AnswerInv' /\ [Next]_vars => LoopInv(fuel)'
      /\ LoopInv(fuel) => (Sparing(fuel) => NoLoop)
  BY <1>3, InitAnswer, AnswerNext, InitLoop, LoopNext, LoopEnds
<1>5. StripsFirst /\ (\A m \in Muxes \ {Outer} : Contains(layers[m], "SubRouter")) => Sparing(fuel)
  <2> SUFFICES ASSUME StripsFirst, \A m \in Muxes \ {Outer} : Contains(layers[m], "SubRouter")
               PROVE  Sparing(fuel)
    OBVIOUS
  <2>1. Lossy
    BY MountFacts DEF Lossy
  <2>2. ASSUME NEW m \in Muxes, NEW i \in DOMAIN Routes[m], Routes[m][i].handler \in Muxes,
               NEW n \in Nat, NEW k \in 1 .. n,
               k < n \/ m = Outer \/ ~Contains(layers[m], "SubRouter")
        PROVE  fuel[Routes[m][i].handler][k] < fuel[m][n]
    <3>1. Routes[m][i] \in Mounts
      BY <2>2 DEF Mounts
    <3>2. Routes[m][i].handler # Outer /\ k \in Nat /\ k # 0 /\ n # 0 /\ k <= n
      BY <3>1
    <3>3. fuel[Routes[m][i].handler][k] = k - 1
      BY <1>1, <2>2, <3>2
    <3>4. CASE m = Outer
      BY <1>1, <3>2, <3>3, <3>4
    <3>5. CASE m # Outer
      BY <1>1, <2>2, <3>2, <3>3, <3>5
    <3> QED BY <3>4, <3>5
  <2>3. Burns(fuel)
    BY <2>2 DEF Burns
  <2> QED BY <2>1, <2>3 DEF Sparing
<1> QED BY <1>4, <1>5, RequestInvariant, PTL DEF Spec
=============================================================================
