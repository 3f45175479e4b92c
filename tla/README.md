# A formal model of Goji

TLA+ specifications of the parts of Goji (`src/`) whose behaviour depends on
interleavings, ordering or a non-trivial algorithm, the TLC configurations that
check them on small instances, and TLAPS proofs of the most important properties
for every size.  `PROJECT.json` maps every definition to the source lines it
stands for.

## 1. The system

| component | state | operations | hard part | what makes it correct |
|---|---|---|---|---|
| `graceful/listener` | per listener: mode, shards, a connection counter; per shard: two sets of conns, a WaitGroup, the `drain` flag; per conn: `busy`, `closed`, `disowned` and a mutex | Accept, Close, Read, SetReadDeadline, MarkIdle, MarkInUse, Disown, CloseIdle, Drain, DrainAll | two kinds of mutex; a sweep works from a snapshot; a read is judged after it happened; five ways off the WaitGroup | drains lose no conn, close none in use, end, and do not end early |
| `graceful`: signals and shutdown | `sigchan`, `mu`, five `sync.Once`s, `closing`, the list of listeners, hooks, the channel `wait` | sigLoop, shutdown (graceful or forced), closeListeners, Shutdown, ShutdownNow, Wait, the timer of Timeout | several shutdowns at once, one overtaking another; signals are lost; hooks hold `mu` | hooks run in their places, a forced shutdown is held up by nothing, an orderly stop is not taken for a failure |
| `graceful`: Serve | accept loop of `net/http`, a ConnState hook | appendListener, Serve, peacefulError | the loop runs against the shutdown | Serve returns nil on shutdown |
| `goji.Serve`, `serve.go` | none of its own | HandleSignals, Serve, log.Fatal, Wait | what main does when Serve returns | no request is cut by the program's exit |
| `web`: router | mutex, route list, compiled machine behind an atomic pointer | handle, compile, getMatch, the runner of the bytecode | routes added while requests are routed; sort, trie and relocated jump targets | exactly the patterns a scan in order of addition would ask |
| `web`: middleware stack | mutex, list of layers, pool of compiled stacks | Use, Insert, Abandon, alloc, release | a stack taken from a pool that has been replaced; calls that nest or panic | a call runs the layers in force, in a stack and with a context of its own |
| `web`: patterns | the parsed pattern | parse, Prefix, Match, Run | break characters and empty values; anchoring and prefix of a regular expression read off its program | patterns match what their text says; a prefix never hides a match |
| `web`: matches, handlers | the context `C` of a request: two maps shared by nested muxes | GetMatch, Router, route | what an inner mux finds, leaves or overwrites in the maps | routing ends; a caller finds its path and match as they were |
| `web/middleware` | per request | AutomaticOptions, SubRouter, Logger, Recoverer, RequestID and others | order of layers, panics passing them, proxies around proxies | one header, the right one; nothing of the inner mux escapes |
| `web/mutil` | status, bytes written | the response-writer proxies | which call comes first | the status agrees with what was sent |
| `bind` | environment, descriptors, a `sync.Once` | init, WithFlag, Sniff, Default, Ready | einhorn or systemd as a parent, children that inherit, a parent that dies | one true acknowledgement, no leaked socket |
| TLS helpers, `example` | none after start | set-up, I/O | — | — |

How they interact: `goji.Serve` binds a socket, starts the signal loop and calls
`graceful.Serve`, which wraps the socket in a `listener.T`, puts it on the list
that `shutdown` walks, and gives it to `net/http`.  `net/http` reports the state
of each conn to the ConnState hook, which calls MarkInUse, MarkIdle and Disown.
A request is given to `web.Mux`, which takes a compiled middleware stack from
its pool, and at its end the router, which runs the bytecode, which asks patterns.
The handler may be another mux, which shares the request, the two maps of the
context and the writer.  The signal loop
starts one goroutine for each kick; each runs `shutdown`, which starts a
goroutine for each listener, which calls Close and then Drain or DrainAll.

The hazards this gives rise to are in `PROJECT.json`, each at its line, with the
properties that cover it or a note.

## 2. Modules

| module | models | extends |
|---|---|---|
| `Listener` | `graceful/listener`: `listener.go`, `conn.go`, `shard.go` | |
| `ListenerProofs` | theorems about `Listener` | `Listener`, `TLAPS` |
| `Shutdown` | `graceful/signal.go`, `graceful.go`, `serve13.go`, `serve.go` | |
| `ShutdownProofs` | theorems about `Shutdown` | `Shutdown`, `TLAPS` |
| `RouteTable` | the sorted list of `router.handle`, and the reference it is held against | |
| `RouteTableProofs` | the theorem about `RouteTable` | `RouteTable`, `TLAPS` |
| `RouteMachine` | what bytecode must be like to route as its list of routes does | `RouteTable` |
| `RouteCompiler` | `bytecode_compiler.go` | `RouteTable` |
| `Router` | `router.go`, `bytecode_runner.go`, `atomic.go`, for any compiler | `RouteMachine` |
| `RouterProofs` | theorems about `Router` | `Router`, `RouteTableProofs` |
| `StackContract` | what `web.Mux` promises of middleware: the abstract specification | |
| `MiddlewareStack` | `web/middleware.go`, `mux.go`, the two pools; implements `StackContract` | |
| `MiddlewareStackProofs` | theorems about `MiddlewareStack` | `MiddlewareStack`, `TLAPS` |
| `Response` | the writers: `net/http`'s, `web/mutil`, `autoOptionsProxy` | |
| `Request` | one request through `web/middleware`, `mux.go`, `router.go`, `match.go` | `Response` |
| `RequestProofs` | theorems about `Request` | `Request`, `TLAPS` |
| `NestingProofs` | theorems about muxes that call each other | `RequestProofs` |
| `Startup` | `bind`, `graceful/einhorn.go`, `serve.go` | |
| `StartupProofs` | theorems about `Startup` | `Startup`, `TLAPS` |
| `StringPattern` | `web/string_pattern.go` | |
| `RegexpPattern` | `sketchOnRegex` of `web/regexp_pattern.go` | |
| `Patterns` | `web/pattern.go`: a pattern meets a path | `StringPattern`, `RegexpPattern` |
| `MCListener`, `MCShutdown`, `MCRouter`, `MCMiddlewareStack`, `MCRequest`, `MCStartup`, `MCPatterns` | model values, instance data, symmetry | the module named; `MCRouter` also `RouteCompiler` |

### Listener

A step is what one goroutine does between two points where another can interfere:
a critical section of `shard.mu`, the acquisition of `conn.mu` with the decision
taken under it, one I/O call, one operation on the WaitGroup.  `pc[g]` is the
point goroutine `g` is at, `cn[g]` the conn of its current call; `sweep[g]`,
`at[g]` and `todo[g]` are the local variables of CloseIdle, Drain and DrainAll.

* `conn.mu` is the variable `cmu`, because its sections call the shard, the
  network and the WaitGroup.  `shard.mu` is the variable `smu`, which is only
  held across a step by `closeConns`; the other sections of it are one step that
  needs it free.
* A shard's flag and sets are the variables `drain`, `all` and `idle`.  Each shard
  has its own in the code; here the shards' sets are joined, and a conn in one of
  them is in that set of `shard[c]`.
* `Close`, `closeIfIdle` and a `markIdle` in a draining shard share the tail
  `Unlist`, `Hangup`, `Done`; `Disown` has `Unlist`, `Release`.
* `Read` is three steps: the call, the I/O (which delivers data only if the
  net.Conn is open), and the deferred function that judges the result.
* `Add` below zero is the panic of `sync.WaitGroup`.  `Panic(g)` ends the program unless the
  caller recovers it, as `net/http` does for handlers; a user's call may therefore also return,
  with the counter where it is.  Sweeps run in goroutines that recover nothing.
* `drained` and `serving` are history: some Drain has returned; the conns a
  caller was told are in use.

The environment: users call any method on any conn that Accept has returned, in
any order, from any goroutine.  This includes Disown of a conn that was closed, by
its user or by the listener itself: a handler may hijack a conn that a DrainAll has
closed, and `serve13.go:52-53` then disowns it.  `conn.disown` does not ask whether the conn is
closed, so that wg.Done runs a second time; `Twice` is the set of conns for which it did, and
`Exact(s)` says that shard `s` has none.

Left out: `conn.ReadFrom` and `Addr`, which have no state, and what the wrapped
connection does with bytes.

### Shutdown

Here a listener is what the properties of `Listener` say of it.  `phase[l]` is
`open`, `marking` while a drain goes through the shards of `l` (a conn may still
slip in or become idle, or be refused or closed), and `marked`, after which a new
conn is refused, one that goes idle is closed, and the drain returns when none is
outstanding.  A shutdown call `k` goes through the `sync.Once`s as in the code:
the first caller of a Once runs its function, the others wait until it has
returned.  `mu` is a variable because hooks run with it held.

`Kicks` are the goroutines sigLoop starts, `Timers` those that sleep for
`Timeout` and then force, `Manuals` those of Shutdown and ShutdownNow.
`FatalServe` says that main is goji's, which ends the program when Serve fails.
`LateServe` says whether Serve may be called after listeners have begun to be
closed (section 5).

A conn that a forced shutdown closes under its request is `cut`: the handler runs on, and may
return or hijack.  If it hijacks, the conn is `twice`, its listener is `Miscounted` and
may tell a drain that nothing is outstanding while something is.  That a listener may do so,
at any moment from then on, covers both what a count that is one too low does and what it
may hide.

Hooks are taken to return and not to call the package.

### RouteTable, RouteMachine, RouteCompiler, Router

A string is a sequence of small integers.  `RouteTable` has the insertion of
`router.handle`: `StaysBefore` is its loop condition, `Position` the index at
which its scan stops.  `RouteCompiler` translates `buildTrie`,
`buildTrieSegment` and the two `encode` functions, one operator each, with the
code's numbering of routes and jump targets: targets are relative to the code
they are in, `Pending` (-1) is a target that the enclosing level fills in, and
the one left over at the top becomes the failing instruction.

These operators are recursive, and no theorem can be stated of a module that uses
them.  They are therefore kept apart: `Router` has the compiler as a constant operator,
`Bytecode(_)`, and what is proved of it holds whatever a list is compiled to, or
whatever it is compiled to if that is lawful.  `MCRouter` joins the two, and its run
checks that the compiler's bytecode is.

`RouteMachine` says what lawful is, without running anything.  Every instruction gets two
labels: `done`, how many routes of the list have been dealt with when it is reached, and
`read`, a string that the path is known to begin with.  `Exits` are the places where it
may go, each with what has been read of the path then and with the routes that are asked
or ruled out on the way; `LawfulAt` asks of each exit that the labels of the next
instruction be kept, that all routes between the two `done` be gone, and that there be
progress (`Ahead`).  `Labels` finds the labels by going over the code until they have
spread everywhere.

`Router` is the state machine: `handle` in three steps under its lock, `getMatch`
in the steps that read the atomic pointer, compile under the lock, and store; the
runner takes one step for each iteration of its loop.  `matching` is what the patterns of the list answer for the
path of a request, whether they are asked or not.  It is chosen when the bytecode starts,
before any is asked, and freely: all that `Pattern.Prefix` promises is that a matching
path begins with it (`Answers`).  What the runner collects can so be held against what it
should have collected.  A route has the number of its addition as `id`; `visited` and `trail`
are history.  A set of methods is a set where the code has a bit mask.

### StackContract, MiddlewareStack

A `cStack` object is `s \in Stacks` with `layers[s]` (what its closures were made
of), `ctx[s]` (its `C`: `Blank`, or the call that made its maps) and `home[s]` (its
field `pool`).  Pools are numbered in the order they are made, `pool` is `m.pool`,
and `idle[q]` is what lies in pool `q`.  A call `c` goes through `alloc` (`Begin` reads
`m.pool`, `Get` asks the pool, `Build` is newStack), `Start`, the handler, and
`release` (`Release` compares, `Put` puts).  `Get` may miss whatever the pool holds,
and `Forget` may drop what it holds: this is `sync.Pool`, and the bounded chan of
older toolchains as well.  Objects that nobody can reach are allocated again.

Use, Insert and Abandon hold `lock` from the change of the list to `Invalidate`;
calls ask no lock.  The documentation of all three calls it illegal to call them
"concurrently with active requests" (`mux.go:61-62`, `73`, `82-83`), but nothing
prevents it, so that here they may come at any moment.  `racing` are the calls that
have overlapped a change.  newStack of such a call reads a slice that is being
written; it may come out as the layers in force, as something else
(`TornLists`), or panic.  Words are read and written whole.  What is checked is that
the damage ends with those calls.

`StackContract` has no pool.  A call is begun, served, leaving; it is served by the
list in force and has a context of its own.  `Contract` in `MiddlewareStack` maps
the nine points of a call to the contract's five, and `layers[cs[c]]` and
`ctx[cs[c]]` to what serves the call.

### Request, Response

One request is one goroutine: `frames` is its stack of muxes, each with the
layer it is in (`i`), its context (the depth whose mux made each map, since a
context is passed by value and its maps are shared) and `saved`, what its SubRouters
are to restore, each with the layer that it belongs to.
`mode` is `down`, `handler`, `up` or `panic`; the deferred functions of Recoverer and
SubRouter run in both of the latter.  Entering and leaving a layer are separate
actions.  A path is the sequence of its segments, and a route's pattern a prefix
with a tail: none, `/*`, or `(?P<_>/.*)`.

Routing takes the first route that matches in the order of addition, which is what
`Router` shows of the compiled machine.  It is stated with sets: `Hits` are the routes
whose pattern matches, `Takes` those of them with the method, `Chosen` the first of
these, `Asked` the routes up to it, and `Binds` what those leave in the maps.  A regular expression binds its groups
already in Match (`regexp_pattern.go:21-23`), so that routes of the wrong method
leave their bindings in the map; a string pattern binds when it is taken.

`Response` is the chain of writers, `ws`: the server's, and a proxy for each layer that
wraps.  A proxy has the place of its layer, `at` (depth and number), by which the layer
finds it again.  A call goes down the chain until a proxy stops it.  This is not a
recursion over the writers but stated of all at once: `Reached` are those that the call
gets to, `Headed` is what a WriteHeader leaves of one, `WithHeaders` of all, `Fed` what a
Write does.  Each Write is one more in `bytes`.  The proxies of Go 1.8 and of earlier
versions differ in the interfaces they ask for.

### Startup

A process goes through the init functions of `bind`, `graceful` and `goji`, binds its
socket, handles signals, calls Ready and serves.  The program may itself call Ready, at any
time once package `bind` is initialized: in main, in a goroutine or in an init function.
`early` is history: the processes in which it did so before goji.Serve handles signals.  `Fork` starts a Goji child with the same environment and with
the descriptors that exec has not closed.  `master` is einhorn, which may
die at any moment and then is no longer anybody's parent.  Assumed is that einhorn is
not the `Reaper`, who adopts orphans (on Unix pid 1), that the environment of the worker
itself is `Truthful` (it may be incomplete, but never names another's sockets), and that
einhorn signals only workers that have acknowledged.

### StringPattern, RegexpPattern, Patterns

The characters of patterns and paths are symbols.  A string pattern is parsed from
its text by the matches of `patternRe`, and matched by the loop of `match`.
`Patterns` holds that against a reading of the text that knows nothing of literals
and breaks (`Fits`, `Filled`).

A regular expression is a sequence of alternatives, each a sequence of items.
What it matches is given by `Ends`, in the place of package regexp.  `Leading` is how
the program that `syntax.Compile` makes begins, up to its first fork; `factored` says
which common beginnings of alternatives the parser factors out, in which releases
of Go differ.  `Walk` is the loop labelled `Sadness`, `Anchor` puts `\A` before the text.

## 3. What the runs check

Times are for two workers.  All runs are exhaustive for their bounds.

| run | instance | shows |
|---|---|---|
| `Listener` | 2 users, 1 sweeper, 2 conns that share 1 shard, all modes; 1.2 M states | `RegistryExact`, `OutstandingCounted`, `NoIdleEscapes`, `DrainWaits`, `RequestsSurvive`, `DisownedLeftAlone` |
| `ListenerForced` | 1 user, 2 sweepers, 1 conn, 2 shards, fair; 0.2 M states | a DrainAll that overtakes a Drain: `SweepReturns`, `DrainReturns` |
| `Shutdown` | 2 signals, 1 manual call, 2 listeners, 1 conn, 2 prehooks; 0.6 M states | `PreHooksFirst`, `PostHooksBetween`, `CloseIsPeaceful` |
| `ShutdownLive` | 1 signal with a timer, 1 manual call, 1 listener, 1 conn, fair; 40,000 states | `ForcedShutdownEnds`, `GracefulShutdownEnds` |
| `Router` | up to 4 routes over 5 prefixes, 5 paths, any set of matching routes, 1 registering and 1 routing goroutine; 0.9 M states | `NaiveRouting`, `NoLoop`, `NoStaleMachine`, `AllowedMethods`, `MachinesLawful` |
| `MiddlewareStack` | 2 calls, 2 stacks, 2 layers, 3 changes, up to 3 layers; 0.3 M states | `StacksPrivate`, `PoolCurrent`, the refinement `ContractSpec` |
| `Request` | 2 muxes, the inner mounted in both in two ways, 4 x 6 choices of middleware, 18 requests, 3 calls of the writer, depth 5; 0.4 M states | `Restored`, `NoLoop`, `Stripped`, `StatusTrue`, `OptionsAnswered`, `HandlersHeard` |
| `Startup` | worker and child, 2 callers of Ready, 2 sockets, a dozen environments, fair; 0.4 M states | `OneAck`, `AckIsTrue`, `NoLeak`, `Starts` |
| `Patterns` | 1663 string patterns, paths of up to 5 characters; 3277 regular expressions, paths of up to 3; 2.6 M states | `MatchesItsText`, `ParamsMakePath`, `PrefixTrue`, `LeftAnchored` |
| `ListenerDisownClosed`, `ShutdownFatal`, `ShutdownLate` | the smallest that do | the first three divergences of section 5 |

Each property is preceded in its module by the sentence of the source it stands
for.  For each there is a mutant of a definition, one plausible bug, under which
TLC finds it violated (`PROJECT.json`, "mutants"; the operators with a suffix).

Why the bounds are enough to be interesting:

* Two conns in one shard are needed for a count that is one too low to let a
  drain return over an open conn, and two users for a read to overlap a Disown, Close or
  MarkIdle of the same conn: these are `Listener`.  Two shards are needed for a sweep that
  is between shards, and two sweepers for a DrainAll to overtake a Drain: these are
  `ListenerForced`.  Conns are dealt to the shards in turn, so that with two shards two conns
  to share one would take a third (`ListenerDisownClosed` has three).  What the first run shows of one
  shard and one sweeper is proved of any number of both.
* Two kicks and a manual call give one shutdown that runs a Once, one that waits
  for it and one that overtakes both by force.  `ShutdownLive` has behaviours in which
  nobody asks but one manual, graceful call: that shutdown has to end by itself.  Two listeners are needed for one
  to be drained while another still is not.
* Four routes, because a reordering needs three and a nested trie with two
  segments needs one more; a prefix longer than the three bytes of an
  instruction, with a path that ends inside it; the empty prefix; siblings in an
  order that splits a segment.  In `MCRouter`, `RunAlone` lets no route be added
  between two instructions of a request: from `Start` on a request reads and
  writes its own variables only, so such steps commute, and every interleaving
  of `handle` with reading, compiling and storing the machine is kept.

* Three changes, because a stack can be allocated before two of them, released
  between and meet a pool made by the third; two stacks for two calls, so that one
  is in a pool while the other is out.
* The inner mux mounts itself, by both kinds of pattern, so that the three
  levels of a request may have found each other in any mixture; depth 5 is two more than
  the segments of the longest path allow if muxes route what they should.
  Three calls let a handler write before, between and after headers.  The choices of
  middleware have the default one of `default.go`, Router at either end, SubRouter
  with and without Router, Logger inside and outside AutomaticOptions, and none.
* One descriptor more than the one that is served is what can leak.  Environments
  have counts and descriptors missing, stale pids, `GOJI_BIND`, and both supervisors.
* String patterns are all texts of three characters and all of four pieces
  (names, break characters, letters, a star); regular expressions are all of three
  atoms, two alternatives of two, and each repetition between atoms.

`MaxRoutes` bounds the routes, `Kicks` the signals, `Timers` the graceful kicks
when there is a Timeout, `MaxChanges` and `MaxLayers` the changes of middleware and
its layers, `MaxDepth` nested muxes, `MaxCalls` a handler's calls; the other bounds
are the sizes of the sets.

Deadlock is checked, except in the runs of `Shutdown` and `Startup` (the program
ends) and of `Request` and `Patterns` (a request and a lookup end).  In `Listener`, where
a program that has panicked is `Ended` and stays so, it says that the lock
order conn.mu before shard.mu leaves nobody stuck.

## 4. Fairness

`Listener`: strong fairness of `Continue(g)` for each goroutine, which are the
steps of a call once begun.  Go runs every runnable goroutine, and its mutexes
hand over to a waiter after a bounded time, so a goroutine that can take a lock
again and again gets it.  Strong fairness is needed because users may take and
drop a conn's lock for ever.  No call is ever forced to begin, and `ReadIO` is
not fair: a peer may never send.

`Shutdown`: weak fairness of `Receive` and of the accept loop's reaction to an
error or an accepted conn, strong fairness of the steps of shutdown calls, of
their goroutines and of `Kick`, which needs `mu`.  A timer fires and hooks
return.  Clients, handlers and signals owe nothing: a request may last for ever, and a
signal need not come.  `GracefulShutdownEnds` therefore assumes that each conn is not busy
infinitely often, `ForcedShutdownEnds` assumes nothing of them.  What starts them is a
signal sent, not a signal received: that the first is not lost, although sigLoop may be
blocked on `mu`, is part of both.  Both suppose
`NoneMiscounted`, since a counter that a second wg.Done has taken below zero keeps its drain
waiting; so do `SweepReturns` and `DrainReturns` in `Listener`, for DrainAll and Drain.

`Startup`: weak fairness of the main goroutine's next step and of each caller's of
Ready.  A call to the operating system returns; nobody owes a signal or a death.

`Router`, `MiddlewareStack`, `Request`, `Patterns`: no liveness property.  In
`Router` and `Request`, `NoLoop` is safety: no instruction runs twice in a request, which
bounds it by the length of the bytecode, and no mux is entered twice with one path.

## 5. Where code and documentation part

Three are runs that TLC must find violated.

* `ListenerDisownClosed`: `Disown` of a conn that was closed takes it off the WaitGroup a
  second time (`conn.go:138-146`).  With `net/http` this takes a DrainAll that closes a busy
  conn and a handler that then hijacks it (`serve13.go:52-53`); a Drain that waits for another
  conn of the shard then returns while that is open, or the counter goes below zero
  and panics.  (`Twice` and `Exact` in the properties of `Listener`, `Miscounted` in those
  of `Shutdown`.)
* `ShutdownFatal`: a conn accepted as the listener starts to drain is refused with
  an error that `peacefulError` does not know.  Serve returns it, and goji's main
  calls `log.Fatal` under requests that Wait was to wait for.
* `ShutdownLate`: a listener appended after closeListeners took the list is never
  closed.  In `serve.go` a signal between HandleSignals and Serve is enough:
  posthooks run and Wait returns while it accepts conns.

The others limit a property, which says so in its condition, or are outside what
the properties speak of.

* `subrouter.go:15-26`: SubRouter un-sets the match only if it finds a suffix.  A mux with
  SubRouter, found by an exact pattern of a mux with Router, finds none, takes the match that
  led to it for its own (`router.go:115-119`) and calls itself for ever; `subrouter.go:58-60`
  promises to "prevent routing loops".  (`~ExactCalls` in `NoLoop`, `Suffixed` in `Stripped`
  and `Restored`.)
* `shard.go:88-89`: DrainAll calls Close on every conn of the snapshot it took before
  dropping the lock, so that it closes one that was disowned since;
  `listener.go:135` says "Disowned connections are not closed."
  (`DisownedLeftAlone` is about the closings that look again.)
* `conn.go:101-110`: `markIdle` on a busy conn that was disowned lists it again, so that it
  stays in the shard's map for the life of the listener; `listener.go:148` says
  Disown "causes a connection to no longer be tracked".  (`RegistryExact` says of `idle` what
  it must be for managed conns.)
* `regexp_pattern.go:90`: `\A` is put before the text of an expression and so binds
  to its first alternative only: `/|/a` matches "x/a".  The comment at
  line 59 promises an expression "just like it, but left-anchored".
  (`~LooseAlternative` in `LeftAnchored`; `PrefixTrue` is about matches at the
  beginning for the same reason.)
* `subrouter.go:16-19`: "*" is looked up before "_", and nested muxes share URLParams.
  A mux mounted by a regular expression inside one mounted by a string pattern is
  therefore given the outer suffix again, where line 53 offers "_" as a duplicate
  of the semantics of "/foo/*".  If muxes mount themselves, a request may go
  round for ever.  (`~MixedMounts` in `Stripped` and `NoLoop`.)
* `regexp_pattern.go:21-23`: Match binds parameters, for routes that are not taken, too;
  `pattern.go:26` says "Match should not modify either argument".
* `mutil`: `BytesWritten` is "the total number of bytes sent to the client", but
  ReadFrom adds nothing to it; Status is 0 after a Flush that sent the header, and
  the Logger then reports what is written later (`flushed` in `StatusTrue`).
* `writer_proxy_go1_8.go:40`: a writer that is a Flusher but no Hijacker, as for HTTP/2, gets the
  basic proxy, which hides Flush.  Before 1.8 there was a proxy for it.
* With Router before SubRouter in one mux the methods of the first routing stay in
  Env, and a 404 of the inner handler is rewritten.  SubRouter of such a mux
  strips what the mux has itself just found, and not the suffix of the pattern
  that it was found by.  (`StripsFirst` in `HandlersHeard` and `Stripped`; `Restored`
  has `Shielded`, the advice of `mux.go:115-117`, for its condition.)
* AutomaticOptions sees the methods only if its mux has an Env when it calls its
  handler; the default mux has, by RequestID (`OptionsAnswered`).
* A program that calls Ready before goji.Serve does tells einhorn of a worker that may have no
  socket and that SIGUSR2 still kills.  This is the caller's part: `bind.go:148` says it
  "should be called at the last possible moment".  (`early` in `AckIsTrue`; `OneAck` holds for
  such callers, too.)

## 6. What is proved

`ListenerProofs`, for any number of conns, goroutines and shards:

| theorem | statement |
|---|---|
| `SafetyInvariant` | `Spec => []SafeInv` |
| `TypeCorrect`, `RegistryCorrect`, `IdleConnsAreSwept`, `RequestsAreSafe`, `DisownedAreLeftAlone` | `TypeOK`, `RegistryExact`, `NoIdleEscapes`, `RequestsSurvive`, `DisownedLeftAlone` |
| `CountInvariant` | `Spec => []CountInv` |
| `CountCorrect`, `DrainCorrect` | `OutstandingCounted`, `DrainWaits` |
| `PanicsAreMiscounts` | a WaitGroup panics only after a conn was disowned that had been closed |
| `DrainWithoutMiscounts` | `Spec => [](Twice = {} => DrainWaitsForAll)`: what Drain promises, for callers that disown no closed conn |

Assumed is `ListenerAssumption`: finitely many conns, at least one shard,
distinguished constants that are none of the others.  Of the callers nothing is assumed.

The properties are not inductive by themselves, because whether one holds after a
goroutine's next step depends on what that goroutine already knows.  `SafeInv`
adds it:

* `LockInv`: a goroutine inside a section of a conn's mutex owns it, so at most
  one is in the middle of changing a conn.
* `HolderKnows`: what that goroutine knows of the conn at each point: at `unlist`
  that it is closed and not disowned, at `rest` that it is in `all` exactly if it
  is managed, and so on.
* `Ownership`: a conn Accept has not returned is known to one goroutine only, and
  a goroutine's snapshot has only conns that were returned.
* `SweepInv` and `MarksFirst`: where a sweep is, and that it has marked each shard
  before it takes the list of its conns.  `NoIdleEscapes` rests on it: a conn
  is on the list or sees the mark.
* `OpenInv` and `ServingInv`: a managed conn is open, a closed one is on its way
  to be hung up; a conn being served is busy, open and managed.

`CountInv` adds for the count: `OutstandingCounted` itself, which subtracts one for each conn in
`Twice`; `PanicInv` (nobody has panicked while `Twice` is empty, and a panic that is not recovered
takes all goroutines); `Waited` (a shard already waited for that is `Exact` has
no outstanding conn, and cannot get one because it is marked) and `Finished`.
The count is a cardinality: `CountEffectStep` shows that every step
leaves the outstanding conns and `Twice` alone, or adds or removes exactly one outstanding conn or
adds one to `Twice`, with the WaitGroup changed to match, and `CountStep` carries the equation over with the
theorems on finite sets.

Each lemma `...Step` has one step for each action of `Next`.

`MiddlewareStackProofs`, for any number of calls, stacks, layers and changes, from
`StackAssumption` (the distinguished constants are none of the others):

| theorem | statement |
|---|---|
| `TypeCorrect`, `StacksArePrivate`, `PoolIsCurrent` | `TypeOK`, `StacksPrivate`, `PoolCurrent` |
| `PoolIsACache` | `Spec => ContractSpec`: the pooled mux implements the one without a pool |

None of them is inductive.  `IInv` adds

* `PoolOfCall`: a call that has overlapped no change has in hand the pool of the mux, one
  that has and outlived the change has an older one, and the stack a call holds has
  the call's pool for its home.  So to ask whether a stack's pool is the mux's
  is to ask whether there was a change, which `m.lock` does not tell the call.
* `Made`: the stack of a call that has overlapped no change is made of the list in
  force, and the pools of the future are empty.
* `CallersWait`: a caller waits for the one call it made.

The step that needs most of it
is `Release` followed by `Put`: between them the pool may be replaced, and the
stack then goes to the old pool, where it does no harm.  The refinement has one lemma
for each action: `Begin`, `Start`, `Fill`, `Return`, `Panic`, the three changes and
`Invalidate` are steps of the contract, `Get`, `Build` and `Forget` stutter, and
`Release` and `Put` are `Leave` when they end the call.

`ShutdownProofs`, for any number of signals, timers, calls, listeners, conns and hooks,
from `ShutdownAssumption` (the sorts of calls are disjoint; conns, signals and timers are
finitely many):

| theorem | statement |
|---|---|
| `ShutdownInvariant` | `Spec => []IInv` |
| `TypeCorrect`, `PreHooksComeFirst`, `AcceptErrorsArePeaceful` | `TypeOK`, `PreHooksFirst`, `CloseIsPeaceful` |
| `PostHooksComeBetween` | `~LateServe` implies `Spec => []PostHooksBetween` |
| `WaitOutlivesRequests` | `~LateServe` implies that a main that has returned from Wait left no busy conn |
| `NoRequestIsCut` | `~LateServe /\ ~FatalServe` implies that no conn is busy when the program has ended |

The two conditions are those that the runs `ShutdownLate` and `ShutdownFatal` show to be
needed.  In the last three the conns of a listener that is `Miscounted` are excepted, for which the
run `ListenerDisownClosed` shows the need.  What makes the properties inductive is what it means to be past a `sync.Once`:

* `PreOwner`, `CloseOwner`, `PostOwner`: the call that is inside a Once is the only one
  there, and a call that is past it finds it done, with its hooks run.  Closing has two,
  one for graceful and one for forced calls, and so two owners.
* `Workers`: only goroutines of a call that waits for them touch a listener, so that one
  that is no longer open says that the prehooks are over.
* `Drains`: a goroutine that is done has left its listener marked and without a conn, and
  it stays so: a marked listener refuses conns, and closes those that become idle.
* `NoneLate`: the goroutines of a call are one for each listener, unless one was appended
  late.  So when either of the two Onces is done, all listeners are clear, also for the
  other call, which may still be going through them.

`StartupProofs`, for any environments, flags and descriptors, from `StartupAssumption`
(section 2):

| theorem | statement |
|---|---|
| `StartupInvariant` | `Spec => []IInv` |
| `OneAckOnly`, `AckComesTrue`, `SocketsDoNotLeak` | `OneAck`, `AckIsTrue`, `NoLeak` |

`IInv` adds whom a process takes for its supervisor and why it is right: `Family` (einhorn
is the parent of the worker as long as it lives, and never of the child, whom it may
orphan at any moment), `Believed` (einhorn's variables convince only the worker, and
`graceful` as well as `bind`, unless einhorn has died between the two), `Readiness` (one
caller is inside `ready.Do`, and none before signals are handled unless the program was `early`),
`Acknowledged` (the caller that is past the acknowledgement, and all that return after it,
have sent it or found einhorn dead), and `Sealed`
(descriptors that a supervisor has named are marked for closing before the worker can start
a child).

`RouteTableProofs` has one theorem, for any strings and any number of routes.
`HandleKeepsOrder`: if the routes that may match one path stand in the order of
their addition, they still do after `router.handle` has added another.  Two
prefixes of one path are comparable (`PrefixesOfOne`), so of two rivals the older
always stays before (`RivalsStay`), and the scan stops somewhere
(`PositionExists`, by the least number of steps back from the end).

`RouterProofs` brings this to the state machine, for any number of goroutines and routes,
any strings and any answers of the patterns, from `RouterAssumption`.  The first three hold
whatever `Bytecode` is, the last four suppose `[]MachinesLawful`: that each machine which
is put in place has labels that its instructions keep.

| theorem | statement |
|---|---|
| `RouterInvariant` | `Spec => []IInv` |
| `MachinesAreCurrent` | `NoStaleMachine`: a request is routed over every route added before it |
| `ListsAreComplete` | its list has each of those routes once it was added, and rivals in the order of addition |
| `CompilerSuffices` | if complete, ordered lists are compiled to lawful bytecode, then `Spec => []MachinesLawful` |
| `LookupInvariant` | `Spec /\ []MachinesLawful => []RunInv` |
| `RouterTypes`, `RoutesLikeNaiveRouter`, `RoutingEnds`, `AllowedIsComplete` | the same for `TypeOK`, `NaiveRouting`, `NoLoop`, `AllowedMethods` |

`IInv` says that the list is complete and ordered (`Table`, kept by `HandleKeepsOrder`), that
a machine that is in place, or about to be stored, is of the list as it is (`Current`: a
registrar clears it before it changes the list, and holds the lock until both are done),
and that the machine of a request is of a list that has all it must know (`Lookups`).

`RunInv` ties a lookup to the labels of the instruction it is at: what is labelled as read
is how the path begins, and where the cursor stands if the instruction needs it; of the
routes that have been dealt with, those whose prefix the path has were asked, each once
and in order (`Asked`); the methods collected are those of the routes dealt with that are in
`matching`, and when a lookup has found nothing these are all of the list, so that a matching
route the bytecode had passed over would be missing.  A list is
ordered only between routes that may match one path, and so `DueInOrder` is what makes
asking in the order of the list asking in the order of addition.  That no instruction comes
twice is `Ahead`, an order on instructions: later routes first; within the same routes the
way out of a trie, which jumps back, before the way down, which goes on (`AheadNotItself`).

`RequestProofs`, for any muxes, routes, middleware, paths and depth, from
`RequestAssumption` (muxes and handlers are distinct, and routes have the fields of a
route):

| theorem | statement |
|---|---|
| `RequestInvariant` | `Spec => []IInv` |
| `TypeCorrect`, `StatusIsTrue`, `HandlersAreHeard`, `SuffixesAreStripped` | `TypeOK`, `StatusTrue`, `HandlersHeard`, `Stripped` |
| `CallersAreRestored` | the action property `Restored` |

`IInv` has the shape of the state (`MapTypes`, `FrameTypes`, and `Shared`: maps that a mux has
made are everybody's further in) and four arguments:

* What a caller gets back (`Saves`, `PathKept`, `MatchKept`, with `Mounted` and `NoneCalled`).
  Of what the SubRouters of a mux have saved, the first is what the mux was called with;
  each restores its own, the last first, so that the first is what remains.
  `SuffixFound` says that a SubRouter of a mux that was mounted with a suffix does find
  one and save; otherwise the match of the caller would be overwritten by the next Router.
* Who wraps whom (`WriterTypes`, `Wrapped`): the proxies are those of the layers that the
  request is inside of, in the order of the layers.  `Silent`: nothing is written on the
  way down, so that a proxy that is added knows as much as the server, nothing.  With
  this `StatusTrue` is inductive.
* Whom AutomaticOptions hears (`RoutedHere`, `Telling`): the methods are in Env only when
  routing found nothing, and then the handler that answers is NotFound.  That routing
  once more would find the same needs `StripsFirst`.
* Whose suffix it is (`Tied`): a match that leads to a mux has bound what it leaves of the
  path (`MatchBound`), a `*` in the maps is that of a mounted mux or of the match
  (`StarKnown`), and so a mux mounted by a string pattern finds its own suffix, and one
  mounted by a regular expression does unless there is a `*` further out (`SuffixRight`,
  `OuterBare`).

There are many actions, but few things they do to frames and maps.  `Steps` shows that each
action is one of nine kinds of step (entering a plain layer, Router or SubRouter; calling
a handler or a mux; leaving a layer or SubRouter; leaving a mux; staying), and three more
kinds cover the writers (`Keeping`, `Adding`, `Removing`).  Each part of `IInv` is then carried
over each kind.

`NestingProofs` builds on this invariant, from the same assumption:

| theorem | statement |
|---|---|
| `OptionsAreAnswered` | `Spec => []OptionsAnswered` |
| `SparingMuxesEnd` | for any `fuel` with `Fuelled(fuel)`: `Spec => [](Sparing(fuel) => NoLoop)` |
| `StrippingMuxesEnd` | if each request's path has fewer than `MaxDepth` segments, and each mux is mounted under a prefix that is not empty, with a suffix, and not as the outermost: `Spec => [](A => NoLoop)`, where `A` says that all muxes strip before they route and all but the outermost do strip |

* For `OptionsAreAnswered`, `AnswerInv` says that the request was sent here: each caller has
  a route that takes its method (`Callers`), so that only the innermost mux can find none;
  that the methods in its Env are its own (`Explained`, `Unanswered`); and that NotFound is
  the first to write (`Quiet`).  Its 404 then goes through the proxies, and the first
  autoOptionsProxy it comes to makes it a 200 and swallows the text (`NotFoundAnswers`).
  The one mux for which `Callers` fails is one that calls itself on and on without routing
  (`Stuck`); it is never answered, and its request ends at `MaxDepth`.
* `NoLoop` is that no mux is entered twice with one path and that `MaxDepth` is never
  exceeded, and so depends on the routes.  A fuel is a
  number for each mux and length of path.  It is `Fuelled` if no request starts with as much as
  `MaxDepth`.  It is `Burns` if a mux has more of it, for the path that it is called with,
  than whom it calls, for the path that it calls them with: shorter if it strips, else
  possibly the same.  `RestShorter` is that what a mux is found by leaves less of the path,
  and `Descending` that fuel goes down with each frame (`CalleeHasLess`), as long as the
  suffix that is stripped is the mux's own, for which `SuffixRight` has the condition
  `~MixedMounts`.  `Sparing` supposes besides that a mounted mux has SubRouter or Router;
  one with neither takes the match of its caller for its own and is `Stuck`.
* `StrippingMuxesEnd` is the case that the documentation of SubRouter has in mind: the fuel
  is the length of what remains when the mux has stripped.  The run `Request` has these
  routes and paths, and middleware with and without SubRouter.  No mux of the run is mounted by an exact
  pattern, nor are such mounts in the theorem: for them `NoLoop` promises nothing.

## 7. What is only model-checked, and why

* All liveness: the prover does no `ENABLED` and so no fairness.
* `RouteCompiler`, `RegexpPattern` and `Patterns`: they use recursive operators, which the
  prover does not take.  What a fold over a pattern's names computes (`StringPattern`)
  would need induction over data.
* `MachinesLawful`: it is about what the recursive compiler makes of a list.  By
  `CompilerSuffices` it is a property of the compiler alone, and all else about the
  bytecode is proved from it.
* `NoLoop` of `Request` for muxes that call each other in a circle and have Router before
  SubRouter, or Router alone.  They may be called with the same path again, and whether they
  are depends on which patterns match it, not on a fuel that goes down.  The run has a mux
  that mounts itself, with both choices.
* Anything about data races: an access without a lock is modelled as atomic
  (`Router` reads the pointer atomically, as `atomic.go` does), but for the list that
  newStack reads (`TornLists`).

## 8. Not modelled

* The pre-1.3 Serve of `graceful` (compiled only by toolchains of that age; its
  middleware marks conns by the calls that `Listener` models), Server and TLS helpers.
* `example`, a sample application; App Engine's variants.
* RealIP and NoCache, which rewrite headers and keep no state; the text of log lines,
  request IDs and terminal colours.
* Tee, Hijack, Push, CloseNotify and Unwrap of the proxies: they pass on, and what a
  Tee receives no property tells apart.
* Regular expressions beyond those of `RegexpPattern` (classes, counted repetition,
  lazy operators), the numbering of their groups, and the type switches by which
  patterns and handlers of other types are accepted.
* `sync.WaitGroup` raised from zero while it is waited for, with the panics by which it
  reports some such misuse, and the sign of the shard index on 32-bit builds.
* In `Shutdown`, the end of the program by the panic of a WaitGroup that `Listener` has
  (`PanicsAreMiscounts`): what is shown of the states before it holds, and the liveness
  properties suppose that no conn was counted twice.

What would come next: a proof that the compiler's bytecode is lawful, in a prover with
induction over data; a common module in which
`Shutdown` uses `Listener` in place of `phase`; and a `Startup` in which einhorn upgrades
from one worker to the next.
