------------------------------- MODULE Request -------------------------------
(***************************************************************************)
(* One request on its way through nested muxes: into the middleware of a   *)
(* mux, to the handler its router finds, which may be another mux, and out *)
(* again, by return or by panic.  On its way are changed the path and the  *)
(* maps Env and URLParams, which muxes share, and the response.            *)
(***************************************************************************)
EXTENDS Response, SequencesExt

CONSTANTS Muxes, Outer,   \* the muxes and the one that net/http calls
          Segments,       \* of paths
          Handlers,       \* what routes lead to, other than muxes
          Routes,         \* of each mux, in the order of their addition
          Stacks,         \* choices of the middleware of each mux
          Requests,       \* methods and paths of requests; a path is its segments
          Servers,        \* what net/http's ResponseWriter can do
          MaxDepth,       \* bound on the muxes a request is in
          MaxCalls        \* bound on the calls a handler makes of its writer

Layers == {"EnvInit", "URLQuery", "RequestID", "Recoverer", "Logger", "AutomaticOptions",
           "Router", "SubRouter"}
IsRoute(r) ==
    /\ r.prefix \in Seq(Segments) /\ r.tail \in {"exact", "*", "_"}
    /\ "none" \notin r.methods /\ r.handler \in Muxes \cup Handlers

ASSUME RequestAssumption ==
    /\ Outer \in Muxes /\ MaxDepth \in Nat \ {0} /\ MaxCalls \in Nat
    /\ "none" \notin Segments
    /\ (Muxes \cup Handlers) \cap {"nil", "notFound", "recovered"} = {}
    /\ Muxes \cap Handlers = {}
    /\ \A m \in Muxes : \A i \in DOMAIN Routes[m] : IsRoute(Routes[m][i])
    /\ \A m \in Muxes : Len(Routes[m]) \in Nat /\ DOMAIN Routes[m] = 1 .. Len(Routes[m])
    /\ Stacks \subseteq [Muxes -> Seq(Layers)]
    /\ \A r \in Requests : r.path \in Seq(Segments)

VARIABLES
    layers, since18,        \* the middleware of each mux; the Go version
    method, path,           \* the http.Request
    envs, params,           \* the maps made by the mux at each depth
    frames,                 \* the muxes the request is in
    ws,                     \* the writers, net/http's first
    mode,                   \* what the request's goroutine does
    serving, calls          \* the handler that runs, and how much it has written

config == <<layers, since18, method>>
maps == <<envs, params>>
vars == <<config, path, maps, frames, ws, mode, serving, calls>>

NoPath == <<"none">>
\* A Match is a route.  The empty one has no handler.
Unrouted(h) == [prefix |-> <<>>, tail |-> "exact", methods |-> {}, handler |-> h]
NoMatch == Unrouted("nil")
NotFound == Unrouted("notFound")
EmptyEnv == [match |-> NoMatch, methods |-> NoMethods]
EmptyParams == [star |-> NoPath, under |-> NoPath]

\* A mux that is called with the context C{params, env}: a map is named by the
\* depth of the mux that made it, and 0 is nil.
Frame(m, c, called) ==
    [mux |-> m, i |-> 0, params |-> c.params, env |-> c.env, saved |-> {},
     called |-> called]

Init ==
    /\ layers \in Stacks /\ since18 \in BOOLEAN
    /\ \E r \in Requests : method = r.method /\ path = r.path
    /\ envs = [d \in 1 .. MaxDepth |-> EmptyEnv]
    /\ params = [d \in 1 .. MaxDepth |-> EmptyParams]
    /\ frames = <<Frame(Outer, [params |-> 0, env |-> 0],
                       [path |-> path, match |-> NoMatch, rest |-> path, tail |-> "exact"])>>
    /\ \E s \in Servers : ws = <<Server(s)>>
    /\ mode = "down" /\ serving = "nil" /\ calls = 0

depth == Len(frames)
top == frames[depth]
Top(f) == frames' = [frames EXCEPT ![depth] = f]

\* web.GetMatch
MatchOf(f) == IF f.env = 0 THEN NoMatch ELSE envs[f.env].match
\* getValidMethods, of the mux at each depth
Valid == [d \in 1 .. depth |->
             IF frames[d].env = 0 THEN NoMethods ELSE envs[frames[d].env].methods]

-----------------------------------------------------------------------------
(* Routing.                                                                *)

\* Patterns "/a/b", "/a/*" and ^/a(?P<_>/.*)$.
Matches(r) ==
    IF r.tail = "exact" THEN path = r.prefix
    ELSE IsPrefix(r.prefix, path) /\ Len(path) > Len(r.prefix)
Rest(r) == SubSeq(path, Len(r.prefix) + 1, Len(path))

\* The routes that match, and the first that has the method.
Hits(m) == {i \in DOMAIN Routes[m] : Matches(Routes[m][i])}
Takes(m) == {i \in Hits(m) : method \in Routes[m][i].methods}
TakenAt(m) == IF Takes(m) = {} THEN 0 ELSE Min(Takes(m))
\* Routes are asked up to the one that is taken if there is one.
Asked(m) == {i \in Hits(m) : Takes(m) # {} => i <= TakenAt(m)}
Allowed(m) == UNION {Routes[m][i].methods : i \in Asked(m)}
Chosen(m) == IF Takes(m) = {} THEN NotFound ELSE Routes[m][TakenAt(m)]

\* The route taken binds "*"; a regular expression binds as soon as it matches.
Binds(m) ==
    LET unders == {i \in Asked(m) : Routes[m][i].tail = "_"}
    IN [star  |-> IF Chosen(m).tail = "*" THEN Rest(Chosen(m)) ELSE NoPath,
        under |-> IF unders = {} THEN NoPath ELSE Rest(Routes[m][Max(unders)])]

\* Mutant: what is bound stays bound.
Rebound_Once(old, new) == IF old = NoPath THEN new ELSE old
\* A name that is bound again, in a map that is there already, changes its value.
Rebound(old, new) == IF new = NoPath THEN old ELSE new

\* Mutant: the methods are told only if there was no Env.
Tell_NewEnv(env, methods, new) == IF new THEN [env EXCEPT !.methods = methods] ELSE env
Tell(env, methods, new) == [env EXCEPT !.methods = methods]

\* A mux makes an Env if it has none.
WithEnv(f) == IF f.env = 0 THEN [f EXCEPT !.env = depth] ELSE f

Rebind(old, new) ==
    [star |-> Rebound(old.star, new.star), under |-> Rebound(old.under, new.under)]
Tells(m) == Takes(m) = {} /\ Allowed(m) # {}

\* What router.getMatch of the mux on top makes of its context and of the maps.
Routed ==
    LET f == IF Binds(top.mux) # EmptyParams /\ top.params = 0
             THEN [top EXCEPT !.params = depth] ELSE top
    IN  IF Tells(top.mux) THEN WithEnv(f) ELSE f
BoundParams ==
    IF Binds(top.mux) = EmptyParams THEN params
    ELSE [params EXCEPT ![Routed.params] = Rebind(@, Binds(top.mux))]
ToldEnvs ==
    IF Tells(top.mux)
    THEN [envs EXCEPT ![Routed.env] = Tell(@, Allowed(top.mux), top.env = 0)] ELSE envs
GetMatch ==
    [match |-> Chosen(top.mux), frame |-> Routed, params |-> BoundParams, envs |-> ToldEnvs]

-----------------------------------------------------------------------------
(* Into the middleware of the mux on top.                                  *)

Enter(l) ==
    /\ mode = "down" /\ top.i < Len(layers[top.mux]) /\ layers[top.mux][top.i + 1] = l
    /\ UNCHANGED <<config, mode, serving, calls>>

Next1(f) == [f EXCEPT !.i = @ + 1]

\* EnvInit, URLQuery and RequestID, but for what the latter put into Env.
EnterEnvMaker(l) ==
    /\ l \in {"EnvInit", "URLQuery", "RequestID"} /\ Enter(l)
    /\ Top(Next1(WithEnv(top)))
    /\ UNCHANGED <<path, maps, ws>>

EnterRecoverer == Enter("Recoverer") /\ Top(Next1(top)) /\ UNCHANGED <<path, maps, ws>>

EnterLogger ==
    /\ Enter("Logger") /\ Top(Next1(top))
    /\ ws' = WrapWriter(ws, since18, <<depth, top.i + 1>>)
    /\ UNCHANGED <<path, maps>>

EnterAutomaticOptions ==
    /\ Enter("AutomaticOptions") /\ Top(Next1(top))
    /\ ws' = IF method = "OPTIONS" THEN Append(ws, OptionsProxy(<<depth, top.i + 1>>)) ELSE ws
    /\ UNCHANGED <<path, maps>>

\* routerMiddleware
EnterRouter ==
    LET g == GetMatch
        f == WithEnv(g.frame)
    IN
    /\ Enter("Router") /\ Top(Next1(f))
    /\ envs' = [g.envs EXCEPT ![f.env].match = g.match]
    /\ params' = g.params
    /\ UNCHANGED <<path, ws>>

\* Mutant: the explicit match is left in place.
Unset_Nothing(f) == envs
Unset(f) == IF MatchOf(f) = NoMatch THEN envs ELSE [envs EXCEPT ![f.env].match = NoMatch]

\* The suffix of the path that SubRouter finds in URLParams.
Suffix(f) ==
    IF f.params = 0 THEN NoPath
    ELSE IF params[f.params].star # NoPath THEN params[f.params].star
    ELSE params[f.params].under

EnterSubRouter ==
    LET old == [i |-> top.i + 1, path |-> path, match |-> MatchOf(top)] IN
    /\ Enter("SubRouter")
    /\ IF Suffix(top) = NoPath THEN Top(Next1(top)) /\ UNCHANGED <<path, envs>>
       ELSE /\ Top(Next1([top EXCEPT !.saved = @ \cup {old}]))
            /\ path' = Suffix(top)
            /\ envs' = Unset(top)
    /\ UNCHANGED <<params, ws>>

\* router.route: the match that is there already, or else getMatch's.
Found ==
    IF MatchOf(top) # NoMatch
    THEN [match |-> MatchOf(top), frame |-> top, params |-> params, envs |-> envs]
    ELSE GetMatch

Route ==
    /\ mode = "down" /\ top.i = Len(layers[top.mux])
    /\ UNCHANGED <<config, path, ws, calls>>

RouteToHandler ==
    /\ Route /\ Found.match.handler \notin Muxes
    /\ mode' = "handler" /\ serving' = Found.match.handler
    /\ Top(Found.frame) /\ envs' = Found.envs /\ params' = Found.params

\* The context is passed by value, and with it which maps there are.
Callee(match, f, es) ==
    Frame(match.handler, f,
          [path  |-> path,
           match |-> IF f.env = 0 THEN NoMatch ELSE es[f.env].match,
           rest  |-> IF match.tail = "exact" THEN path ELSE Rest(match),
           tail  |-> match.tail])

RouteToMux ==
    /\ Route /\ Found.match.handler \in Muxes /\ depth < MaxDepth
    /\ frames' = Append([frames EXCEPT ![depth] = Found.frame],
                        Callee(Found.match, Found.frame, Found.envs))
    /\ envs' = [Found.envs EXCEPT ![depth + 1] = EmptyEnv]
    /\ params' = [Found.params EXCEPT ![depth + 1] = EmptyParams]
    /\ UNCHANGED <<mode, serving>>

RouteTooDeep ==
    /\ Route /\ Found.match.handler \in Muxes /\ depth = MaxDepth
    /\ mode' = "overflow" /\ UNCHANGED <<frames, maps, serving>>

-----------------------------------------------------------------------------
(* The handler, and the way out.                                           *)

Call(written) ==
    /\ mode = "handler" /\ serving # "notFound" /\ calls < MaxCalls
    /\ ws' = written /\ calls' = calls + 1
    /\ UNCHANGED <<config, path, maps, frames, mode, serving>>

CallWriteHeader(code) == Call(WriteHeader(ws, Len(ws), code, Valid))
CallWrite == Call(Write(ws, Len(ws)))
CallFlush == "Flusher" \in Interfaces(ws, Len(ws)) /\ Call(Flush(ws))
CallReadFrom == "ReaderFrom" \in Interfaces(ws, Len(ws)) /\ Call(ReadFrom(ws, Len(ws)))

HandlerReturn ==
    /\ mode = "handler" /\ serving # "notFound" /\ mode' = "up"
    /\ UNCHANGED <<config, path, maps, frames, ws, serving, calls>>

HandlerPanic ==
    /\ mode = "handler" /\ serving # "notFound" /\ mode' = "panic"
    /\ UNCHANGED <<config, path, maps, frames, ws, serving, calls>>

\* http.NotFound, the NotFound handler of a new router
ServeNotFound ==
    /\ mode = "handler" /\ serving = "notFound" /\ mode' = "up"
    /\ ws' = Error(ws, 404, Valid)
    /\ UNCHANGED <<config, path, maps, frames, serving, calls>>

\* Layer l returns, or a panic passes it.
Leave(l) ==
    /\ mode \in {"up", "panic"} /\ top.i > 0 /\ layers[top.mux][top.i] = l
    /\ UNCHANGED <<config, params, calls>>
Next0(f) == [f EXCEPT !.i = @ - 1]

LeaveOther(l) ==
    /\ l \in {"EnvInit", "URLQuery", "RequestID", "Router"} /\ Leave(l) /\ Top(Next0(top))
    /\ UNCHANGED <<path, envs, ws, mode, serving>>

LeaveAutomaticOptions ==
    /\ Leave("AutomaticOptions") /\ Top(Next0(top))
    /\ ws' = IF method = "OPTIONS" THEN Front(ws) ELSE ws
    /\ UNCHANGED <<path, envs, mode, serving>>

\* Mutant: the proxy stays in place when a panic passes.
LeaveLogger_Stays ==
    /\ Leave("Logger") /\ Top(Next0(top))
    /\ ws' = IF mode = "panic" THEN ws
             ELSE Front(IF Last(ws).code = 0 THEN WriteHeader(ws, Len(ws), 200, Valid) ELSE ws)
    /\ UNCHANGED <<path, envs, mode, serving>>

\* The Logger sends the header if nobody has, unless a panic passes.
LeaveLogger ==
    /\ Leave("Logger") /\ Top(Next0(top))
    /\ ws' = Front(IF mode = "up" /\ Last(ws).code = 0
                   THEN WriteHeader(ws, Len(ws), 200, Valid) ELSE ws)
    /\ UNCHANGED <<path, envs, mode, serving>>

LeaveRecoverer ==
    /\ Leave("Recoverer") /\ Top(Next0(top))
    /\ mode' = "up"
    /\ IF mode = "panic" THEN ws' = Error(ws, 500, Valid) /\ serving' = "recovered"
       ELSE UNCHANGED <<ws, serving>>
    /\ UNCHANGED <<path, envs>>

\* Mutant: what was changed is restored only if the handler returns.
Restores_OnReturn == {old \in top.saved : old.i = top.i /\ mode = "up"}
Restores == {old \in top.saved : old.i = top.i}

Reset(env, match) == [env EXCEPT !.match = match]

\* SubRouter restores by a deferred call, which a panic runs, too.
LeaveSubRouter ==
    /\ Leave("SubRouter")
    /\ Top(Next0([top EXCEPT !.saved = {old \in @ : old.i # top.i}]))
    /\ \/ Restores = {} /\ UNCHANGED <<path, envs>>
       \/ \E old \in Restores :
             /\ path' = old.path
             /\ envs' = IF top.env = 0 THEN envs
                        ELSE [envs EXCEPT ![top.env] = Reset(@, old.match)]
    /\ UNCHANGED <<ws, mode, serving>>

LeaveMux ==
    /\ mode \in {"up", "panic"} /\ top.i = 0
    /\ IF depth > 1 THEN frames' = Front(frames) /\ UNCHANGED mode
       ELSE mode' = (IF mode = "up" THEN "done" ELSE "aborted") /\ UNCHANGED frames
    /\ UNCHANGED <<config, path, maps, ws, serving, calls>>

-----------------------------------------------------------------------------
EnterLayer ==
    \/ \E l \in {"EnvInit", "URLQuery", "RequestID"} : EnterEnvMaker(l)
    \/ EnterRecoverer \/ EnterLogger \/ EnterAutomaticOptions \/ EnterRouter \/ EnterSubRouter

Handler ==
    \/ \E code \in {200, 404} : CallWriteHeader(code)
    \/ CallWrite \/ CallFlush \/ CallReadFrom
    \/ HandlerReturn \/ HandlerPanic \/ ServeNotFound

LeaveLayer ==
    \/ \E l \in {"EnvInit", "URLQuery", "RequestID", "Router"} : LeaveOther(l)
    \/ LeaveAutomaticOptions \/ LeaveLogger \/ LeaveRecoverer \/ LeaveSubRouter

Routing == RouteToHandler \/ RouteToMux \/ RouteTooDeep

Next == EnterLayer \/ Routing \/ Handler \/ LeaveLayer \/ LeaveMux

Spec == Init /\ [][Next]_vars

-----------------------------------------------------------------------------
(* Properties.                                                             *)

\* The layers the request is in, and those of them that have made a writer.
Inside == UNION {{<<d, i>> : i \in 1 .. frames[d].i} : d \in 1 .. depth}
LayerAt(at) == layers[frames[at[1]].mux][at[2]]
Wrapping ==
    {at \in Inside : \/ LayerAt(at) = "Logger"
                    \/ (LayerAt(at) = "AutomaticOptions" /\ method = "OPTIONS")}
Deeper(a, b) == a[1] < b[1] \/ (a[1] = b[1] /\ a[2] < b[2])

(* Maps are those of the muxes further out, and the writers are those of   *)
(* the layers the request is in, in their order.                           *)
TypeOK ==
    /\ depth \in 1 .. MaxDepth /\ mode \in {"down", "handler", "up", "panic", "overflow",
                                            "done", "aborted"}
    /\ \A d \in 1 .. depth : /\ frames[d].env \in 0 .. d /\ frames[d].params \in 0 .. d
                             /\ frames[d].i \in 0 .. Len(layers[frames[d].mux])
    /\ {ws[k].at : k \in 2 .. Len(ws)} = Wrapping
    /\ \A k \in 2 .. Len(ws) :
          /\ IsProxy(ws[k]) <=> LayerAt(ws[k].at) = "Logger"
          /\ \A j \in 2 .. k - 1 : Deeper(ws[j].at, ws[k].at)

\* Every a of mux m has a b before it.
Precedes(m, b, a) ==
    \A i \in DOMAIN layers[m] : layers[m][i] = a => \E j \in 1 .. i - 1 : layers[m][j] = b

\* The routes that lead to a mux.
Mounts == UNION {{Routes[m][i] : i \in {j \in DOMAIN Routes[m] : Routes[m][j].handler \in Muxes}} :
                    m \in Muxes}

\* Every mux that is a handler is found by a pattern that leaves it a suffix.
Suffixed == \A r \in Mounts : r.tail # "exact"
\* And it unsets the match before it routes itself.
Shielded == Suffixed /\ \A r \in Mounts : Precedes(r.handler, "SubRouter", "Router")

\* No mux has a SubRouter after a Router.
StripsFirst ==
    \A m \in Muxes : \A i, j \in DOMAIN layers[m] :
        layers[m][i] = "Router" /\ layers[m][j] = "SubRouter" => j < i

(* When a mux that was called as a handler is left, by return or by panic, *)
(* path and explicit match are its caller's again, however the muxes       *)
(* within it routed (subrouter.go:28-38).                                  *)
Restored ==
    [][depth' < depth /\ Shielded =>
          /\ path' = top.called.path
          /\ (IF top'.env = 0 THEN NoMatch ELSE envs'[top'.env].match) = top.called.match]_vars

\* A mux found by a string pattern, and in it one found by ^/b(?P<_>/.*)$.
MixedMounts ==
    \E d, e \in 1 .. depth :
        d < e /\ frames[d].called.tail = "*" /\ frames[e].called.tail = "_"

\* A mux found by a pattern that leaves it no suffix: there is nothing to strip.
ExactCalls == \E d \in 2 .. depth : frames[d].called.tail = "exact"

(* "If you use both explicit routing and nested Muxes, you should be sure  *)
(* to unset MatchKey before the inner Mux performs routing (or attach a    *)
(* Router to the inner Mux as well)" (mux.go:115-117): who does so is safe *)
(* from the endless recursion that the comment warns of, but for mixed     *)
(* mounts (see Stripped) and for muxes found by an exact pattern: there    *)
(* SubRouter finds no suffix and unsets nothing (subrouter.go:15-26).      *)
NoLoop ==
    /\ ~MixedMounts /\ ~ExactCalls
    /\ \A m \in Muxes \ {Outer} : \E l \in {"SubRouter", "Router"} : Contains(layers[m], l)
    =>  /\ mode # "overflow"
        /\ \A d, e \in 1 .. depth :
              /\ frames[d].mux = frames[e].mux
              /\ frames[d].called.path = frames[e].called.path
              => d = e

(* Inside SubRouter "the request URL's Path" is "this unmatched suffix"    *)
(* (subrouter.go:47-50) of the pattern that the mux was found by.  Not so  *)
(* with mixed mounts: muxes share URLParams, and "*" is looked up first,   *)
(* so that the suffix of the outer pattern is taken again.  Nor if a mux   *)
(* routes before its SubRouter: its own suffix is the one that is found.   *)
Stripped ==
    mode = "down" /\ top.saved # {} /\ ~MixedMounts /\ Suffixed /\ StripsFirst
        => path = top.called.rest

(* What Logger prints as the status is what went over the wire, whatever   *)
(* the handler calls, however often, and whoever panics, unless it flushes *)
(* before there is a header or an autoOptionsProxy is further out.         *)
StatusTrue ==
    \A k \in DOMAIN ws :
        IsProxy(ws[k]) /\ ~ws[1].flushed /\ (\A j \in 1 .. k : ws[j].kind # "options") =>
            ws[k].code = ws[1].code

(* An OPTIONS request that no route of any mux takes, but whose path is    *)
(* known, is answered with the methods that mux allows and no body, if the *)
(* mux with AutomaticOptions has an Env: a mux calls its handlers with a   *)
(* copy of its context, and an Env made inside is not seen outside.        *)
OptionsAnswered ==
    /\ mode = "up" /\ serving = "notFound" /\ top.i = Len(layers[top.mux])
    /\ method = "OPTIONS" /\ Takes(top.mux) = {} /\ Allowed(top.mux) # {}
    /\ \E k \in DOMAIN ws : ws[k].kind = "options" /\ frames[ws[k].at[1]].env # 0
    => /\ ws[1].code = 200 /\ ws[1].bytes = 0
       /\ ws[1].sentAllow = Allowed(top.mux) \cup {"OPTIONS"}

(* The response of a handler that a route was found for is left alone,     *)
(* unless a mux routes before its SubRouter and again after.               *)
HandlersHeard ==
    StripsFirst =>
        \A k \in DOMAIN ws : ws[k].kind = "options" /\ ws[k].state = "proxying" =>
            serving = "notFound"
=============================================================================
