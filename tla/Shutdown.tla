------------------------------ MODULE Shutdown ------------------------------
(***************************************************************************)
(* graceful: a signal, a timer or the program itself starts shutdown();    *)
(* any number of them run at once and meet in sync.Onces.  The listeners   *)
(* are taken by what package listener promises of them: while shards are   *)
(* being marked a conn may or may not slip in or stay, after that it is    *)
(* refused, or closed as soon as it is idle, and the drain returns when no *)
(* conn is outstanding, as long as the listener has not counted one twice. *)
(*                                                                         *)
(* graceful.mu is held across steps only while hooks run; its other        *)
(* sections are single steps that need it free.                            *)
(***************************************************************************)
EXTENDS Naturals, FiniteSets

CONSTANTS Listeners,   \* the listeners the program serves
          Conns,       \* the connections clients may open
          Kicks,       \* goroutines sigLoop starts: one for each signal handled
          Timers,      \* goroutines that wait for Timeout; none if it is 0
          Manuals,     \* goroutines that call Shutdown or ShutdownNow
          NumPre,      \* number of prehooks registered
          NumPost,     \* number of posthooks registered
          NoCall,      \* the owner of a free mu
          DoubleKick,  \* whether DoubleKickWindow is not 0
          LateServe,   \* whether Serve may be called once listeners are being closed
          FatalServe   \* whether main exits when Serve fails, as goji.Serve does

Calls == Kicks \cup Timers \cup Manuals

ASSUME ShutdownAssumption ==
    /\ IsFiniteSet(Conns) /\ IsFiniteSet(Kicks) /\ IsFiniteSet(Timers)
    /\ Kicks \cap Timers = {} /\ Manuals \cap (Kicks \cup Timers) = {}
    /\ NumPre \in Nat /\ NumPost \in Nat /\ NoCall \notin Calls
    /\ {DoubleKick, LateServe, FatalServe} \subseteq BOOLEAN

VARIABLES
    signals, sigchan, sigpc,    \* signals sent, buffered (0 or 1), and sigLoop
    mu, once, closing,          \* mutex, Onces and closing flag of the package
    preRun, postRun, waiting,   \* hooks run so far; channel wait is still open
    listeners,                  \* the listeners appended so far
    pc, force, work,            \* shutdown calls and their goroutines per listener
    accepting, phase,           \* of a listener: not closed; how far it is drained
    serve, conn, from,          \* Serve loops; conns and the listeners they come by
    exit                        \* how the program has ended

(***************************************************************************)
(* phase[l] is "open", "marking" while a drain marks the shards of l, and  *)
(* "marked".  work[k][l] is where the goroutine is that call k started for *)
(* l.  conn[c] is "new", "inflight" inside Accept, "idle", "busy" with a   *)
(* request, "hijacked" or "gone"; "cut" if it was closed under a request   *)
(* whose handler still runs, and "twice" if that handler then hijacks it.  *)
(***************************************************************************)
sigVars  == <<signals, sigchan, sigpc>>
pkgVars  == <<mu, once, closing, listeners>>
hookVars == <<preRun, postRun, waiting>>
callVars == <<pc, force, work>>
lisVars  == <<accepting, phase>>
connVars == <<conn, from>>
vars == <<sigVars, pkgVars, hookVars, callVars, lisVars, serve, connVars, exit>>

Init ==
    /\ signals = 0 /\ sigchan = 0 /\ sigpc = "receive"
    /\ mu = NoCall /\ closing = FALSE /\ listeners = {}
    /\ once = [o \in {"pre", "close", "force", "post"} |-> "new"]
    /\ preRun = 0 /\ postRun = 0 /\ waiting = TRUE
    /\ pc = [k \in Calls |-> "none"] /\ force = [k \in Calls |-> FALSE]
    /\ work = [k \in Calls |-> [l \in Listeners |-> "none"]]
    /\ accepting = [l \in Listeners |-> TRUE] /\ phase = [l \in Listeners |-> "open"]
    /\ serve = [l \in Listeners |-> "none"]
    /\ conn = [c \in Conns |-> "new"] /\ from \in [Conns -> Listeners]
    /\ exit = "no"

Running == exit = "no"
MuFree == mu = NoCall
Started(k) == pc[k] # "none"
At(k, l) == Running /\ pc[k] = l
Goto(k, l) == pc' = [pc EXCEPT ![k] = l]
Outstanding(l) == {c \in Conns : from[c] = l /\ conn[c] \in {"idle", "busy"}}
\* The listener has taken a conn off its count by Close and again by Disown.
Miscounted(l) == \E c \in Conns : from[c] = l /\ conn[c] = "twice"

-----------------------------------------------------------------------------
(* Signals.  sigchan holds one; another that comes meanwhile is lost.      *)

\* Mutant: no signal is dropped.
Signal_Queued ==
    /\ Running /\ signals < Cardinality(Kicks)
    /\ signals' = signals + 1 /\ sigchan' = sigchan + 1
    /\ UNCHANGED <<sigpc, pkgVars, hookVars, callVars, lisVars, serve, connVars, exit>>

\* Mutant: the channel holds none; a signal that sigLoop does not wait for is lost.
Signal_Unbuffered ==
    /\ Running /\ signals < Cardinality(Kicks)
    /\ signals' = signals + 1 /\ sigchan' \in {sigchan, 1}
    /\ UNCHANGED <<sigpc, pkgVars, hookVars, callVars, lisVars, serve, connVars, exit>>

Signal ==
    /\ Running /\ signals < Cardinality(Kicks)
    /\ signals' = signals + 1 /\ sigchan' = 1
    /\ UNCHANGED <<sigpc, pkgVars, hookVars, callVars, lisVars, serve, connVars, exit>>

\* The time is taken with the signal: one that follows another may be a double kick.
\* With a Timeout, Timers bounds the graceful kicks.
Receive ==
    /\ Running /\ sigchan = 1 /\ sigpc = "receive"
    /\ sigchan' = 0
    /\ \/ /\ Timers = {} \/ \E t \in Timers : ~Started(t)
          /\ sigpc' = "kick"
       \/ /\ DoubleKick /\ \E k \in Kicks : Started(k)
          /\ sigpc' = "doublekick"
    /\ UNCHANGED <<signals, pkgVars, hookVars, callVars, lisVars, serve, connVars, exit>>

\* Under mu: start the timer of a graceful kick; then start the shutdown.
Kick(k) ==
    /\ Running /\ sigpc # "receive" /\ MuFree /\ ~Started(k)
    /\ sigpc' = "receive"
    /\ \/ /\ Timers = {} \/ sigpc = "doublekick"
          /\ Goto(k, "pre")
          /\ force' = [force EXCEPT ![k] = (sigpc = "doublekick")]
       \/ /\ sigpc = "kick"
          /\ \E t \in Timers :
                /\ ~Started(t)
                /\ pc' = [pc EXCEPT ![k] = "pre", ![t] = "sleep"]
                /\ force' = [force EXCEPT ![t] = TRUE]
    /\ UNCHANGED <<signals, sigchan, pkgVars, hookVars, work, lisVars, serve, connVars, exit>>

TimerFires(k) ==
    /\ At(k, "sleep") /\ Goto(k, "pre")
    /\ UNCHANGED <<sigVars, pkgVars, hookVars, force, work, lisVars, serve, connVars, exit>>

\* Shutdown (f is FALSE) or ShutdownNow.
Manual(k, f) ==
    /\ At(k, "none") /\ Goto(k, "pre")
    /\ force' = [force EXCEPT ![k] = f]
    /\ UNCHANGED <<sigVars, pkgVars, hookVars, work, lisVars, serve, connVars, exit>>

-----------------------------------------------------------------------------
(* shutdown.  Once.Do runs its function in the first call and makes the    *)
(* others wait until it has returned.                                      *)

\* Mutant: a call that finds the Once taken goes on at once.
OnceOver_Flag(o) == once[o] # "new"
OnceOver(o) == once[o] = "done"

Do(k, o, body, next) ==
    /\ \/ /\ once[o] = "new" /\ Goto(k, body)
          /\ once' = [once EXCEPT ![o] = "running"]
       \/ /\ OnceOver(o) /\ Goto(k, next)
          /\ UNCHANGED once
    /\ UNCHANGED <<sigVars, mu, closing, listeners, hookVars, force, work, lisVars, serve,
                   connVars, exit>>

CloseOnce(k) == IF force[k] THEN "force" ELSE "close"

Pre(k)   == At(k, "pre")   /\ Do(k, "pre", "prelock", "close")
Close(k) == At(k, "close") /\ Do(k, CloseOnce(k), "flag", "post")
Post(k)  == At(k, "post")  /\ Do(k, "post", "postlock", "notify")

HookLock(k, before, in) ==
    /\ At(k, before) /\ MuFree
    /\ mu' = k /\ Goto(k, in)
    /\ UNCHANGED <<sigVars, once, closing, listeners, hookVars, force, work, lisVars, serve,
                   connVars, exit>>

PreLock(k)  == HookLock(k, "prelock", "prehook")
PostLock(k) == HookLock(k, "postlock", "posthook")

RunPreHook(k) ==
    /\ At(k, "prehook") /\ preRun < NumPre
    /\ preRun' = preRun + 1
    /\ UNCHANGED <<sigVars, pkgVars, postRun, waiting, callVars, lisVars, serve, connVars, exit>>

RunPostHook(k) ==
    /\ At(k, "posthook") /\ postRun < NumPost
    /\ postRun' = postRun + 1
    /\ UNCHANGED <<sigVars, pkgVars, preRun, waiting, callVars, lisVars, serve, connVars, exit>>

\* Mutant: hooks that run with mu held leave it locked.
HooksEnd_KeepsLock(k) ==
    /\ \/ /\ At(k, "prehook") /\ preRun = NumPre
          /\ Goto(k, "close") /\ once' = [once EXCEPT !["pre"] = "done"]
       \/ /\ At(k, "posthook") /\ postRun = NumPost
          /\ Goto(k, "notify") /\ once' = [once EXCEPT !["post"] = "done"]
    /\ UNCHANGED <<sigVars, mu, closing, listeners, hookVars, force, work, lisVars, serve,
                   connVars, exit>>

HooksEnd(k) ==
    /\ \/ /\ At(k, "prehook") /\ preRun = NumPre
          /\ Goto(k, "close") /\ once' = [once EXCEPT !["pre"] = "done"]
       \/ /\ At(k, "posthook") /\ postRun = NumPost
          /\ Goto(k, "notify") /\ once' = [once EXCEPT !["post"] = "done"]
    /\ mu' = NoCall
    /\ UNCHANGED <<sigVars, closing, listeners, hookVars, force, work, lisVars, serve, connVars,
                   exit>>

\* notifyOnce closes the channel wait: the first call does, the others need not.
Notify(k) ==
    /\ At(k, "notify") /\ Goto(k, "returned")
    /\ waiting' = FALSE
    /\ UNCHANGED <<sigVars, pkgVars, preRun, postRun, force, work, lisVars, serve, connVars, exit>>

-----------------------------------------------------------------------------
(* closeListeners, and the goroutine it starts for each listener.          *)

\* Mutant: the flag is left for later.
Flag_Skipped(k) ==
    /\ At(k, "flag") /\ Goto(k, "spawn")
    /\ UNCHANGED <<sigVars, pkgVars, hookVars, force, work, lisVars, serve, connVars, exit>>

Flag(k) ==
    /\ At(k, "flag") /\ Goto(k, "spawn")
    /\ closing' = TRUE
    /\ UNCHANGED <<sigVars, mu, once, listeners, hookVars, force, work, lisVars, serve,
                   connVars, exit>>

Spawn(k) ==
    /\ At(k, "spawn") /\ MuFree /\ Goto(k, "join")
    /\ work' = [work EXCEPT ![k] = [l \in Listeners |->
                                      IF l \in listeners THEN "close" ELSE "none"]]
    /\ UNCHANGED <<sigVars, pkgVars, hookVars, force, lisVars, serve, connVars, exit>>

\* Mutant: the goroutines are not waited for.
Joined_NoWait(k) == TRUE
Joined(k) == \A l \in Listeners : work[k][l] \in {"none", "done"}

Join(k) ==
    /\ At(k, "join") /\ Joined(k) /\ Goto(k, "post")
    /\ once' = [once EXCEPT ![CloseOnce(k)] = "done"]
    /\ UNCHANGED <<sigVars, mu, closing, listeners, hookVars, force, work, lisVars, serve,
                   connVars, exit>>

Work(k, l, was, is) ==
    /\ Running /\ work[k][l] = was /\ work' = [work EXCEPT ![k][l] = is]
    /\ UNCHANGED <<sigVars, pkgVars, hookVars, pc, force, serve, from, exit>>

\* Close also turns keep-alives off: net/http then ends conns rather than idling
\* them, which Finish allows and nothing here relies on.
CloseListener(k, l) ==
    /\ Work(k, l, "close", "mark")
    /\ accepting' = [accepting EXCEPT ![l] = FALSE]
    /\ UNCHANGED <<phase, conn>>

MarkFirst(k, l) ==
    /\ Work(k, l, "mark", "sweep")
    /\ phase' = [phase EXCEPT ![l] = IF @ = "open" THEN "marking" ELSE @]
    /\ UNCHANGED <<accepting, conn>>

MarkLast(k, l) ==
    /\ Work(k, l, "sweep", "wait")
    /\ phase' = [phase EXCEPT ![l] = "marked"]
    /\ UNCHANGED <<accepting, conn>>

\* Mutant: a forced shutdown drains like any other.
Closes_Idle(k) == {"idle"}
\* Mutant: a graceful drain leaves idle conns to their clients.
Closes_Forced(k) == IF force[k] THEN {"idle", "busy"} ELSE {}
\* Drain closes idle conns, DrainAll the busy ones too.
Closes(k) == IF force[k] THEN {"idle", "busy"} ELSE {"idle"}

Sweep(k, l, c) ==
    /\ from[c] = l /\ conn[c] \in Closes(k)
    /\ \E w \in {"sweep", "wait"} : Work(k, l, w, w)
    /\ conn' = [conn EXCEPT ![c] = IF @ = "busy" THEN "cut" ELSE "gone"]
    /\ UNCHANGED lisVars

\* A count that is too low may be 0 before the last conn has gone.
Drained(k, l) ==
    /\ Work(k, l, "wait", "done")
    /\ Outstanding(l) = {} \/ Miscounted(l)
    /\ UNCHANGED <<lisVars, conn>>

-----------------------------------------------------------------------------
(* Serve and the conns.                                                    *)

ConnStep(c, was, is) ==
    /\ Running /\ conn[c] = was /\ conn' = [conn EXCEPT ![c] = is]
    /\ UNCHANGED <<sigVars, pkgVars, hookVars, callVars, lisVars, from, exit>>

\* appendListener, then the accept loop of net/http.
Serve(l) ==
    /\ Running /\ serve[l] = "none" /\ MuFree
    /\ LateServe \/ {once["close"], once["force"]} = {"new"}
    /\ listeners' = listeners \cup {l}
    /\ serve' = [serve EXCEPT ![l] = "accept"]
    /\ UNCHANGED <<sigVars, mu, once, closing, hookVars, callVars, lisVars, connVars, exit>>

Accept(l, c) ==
    /\ serve[l] = "accept" /\ accepting[l] /\ from[c] = l
    /\ ConnStep(c, "new", "inflight")
    /\ serve' = [serve EXCEPT ![l] = "track"]

\* What Serve makes of the error that ends its accept loop.
Peaceful(err) == closing /\ err = "accept error"
Returns(l, err) == serve' = [serve EXCEPT ![l] = IF Peaceful(err) THEN "returned" ELSE err]

Track(l, c) ==
    /\ from[c] = l /\ phase[l] # "marked"
    /\ ConnStep(c, "inflight", "idle")
    /\ serve' = [serve EXCEPT ![l] = "accept"]

\* The listener is draining: Accept closes the conn and fails.
Refuse(l, c) ==
    /\ from[c] = l /\ phase[l] # "open"
    /\ ConnStep(c, "inflight", "gone")
    /\ Returns(l, "refused")

\* The wrapped Accept fails once it has been closed.
AcceptError(l) ==
    /\ Running /\ serve[l] = "accept" /\ ~accepting[l]
    /\ Returns(l, "accept error")
    /\ UNCHANGED <<sigVars, pkgVars, hookVars, callVars, lisVars, connVars, exit>>

\* A request is read; it ends with the conn kept, closed or hijacked.
Request(c) == ConnStep(c, "idle", "busy") /\ UNCHANGED serve
MarkIdle(c) ==
    /\ phase[from[c]] # "marked"
    /\ ConnStep(c, "busy", "idle") /\ UNCHANGED serve
Finish(c) == (\E was \in {"busy", "idle", "cut"} : ConnStep(c, was, "gone")) /\ UNCHANGED serve
\* net/http disowns what a handler hijacks, also if it has been closed.
Hijack(c) ==
    /\ ConnStep(c, "busy", "hijacked") \/ ConnStep(c, "cut", "twice")
    /\ UNCHANGED serve

End(how) ==
    /\ Running /\ exit' = how
    /\ UNCHANGED <<sigVars, pkgVars, hookVars, callVars, lisVars, serve, connVars>>

\* goji.Serve gives up on an error of Serve; otherwise main ends after Wait.
Fatal ==
    /\ FatalServe
    /\ \E l \in Listeners : serve[l] \in {"accept error", "refused"}
    /\ End("fatal")
MainReturns ==
    /\ ~waiting
    /\ FatalServe => \A l \in Listeners : serve[l] = "returned"
    /\ End("clean")

-----------------------------------------------------------------------------
CallStep(k) ==
    \/ TimerFires(k) \/ Pre(k) \/ PreLock(k) \/ RunPreHook(k) \/ HooksEnd(k)
    \/ Close(k) \/ Flag(k) \/ Spawn(k) \/ Join(k)
    \/ Post(k) \/ PostLock(k) \/ RunPostHook(k) \/ Notify(k)

WorkerStep(k, l) ==
    \/ CloseListener(k, l) \/ MarkFirst(k, l) \/ MarkLast(k, l) \/ Drained(k, l)
    \/ \E c \in Conns : Sweep(k, l, c)

AcceptStep(l) ==
    \/ AcceptError(l)
    \/ \E c \in Conns : Track(l, c) \/ Refuse(l, c)

Next ==
    \/ Signal \/ Receive
    \/ \E k \in Kicks : Kick(k)
    \/ \E k \in Manuals, f \in BOOLEAN : Manual(k, f)
    \/ \E k \in Calls : CallStep(k)
    \/ \E k \in Calls, l \in Listeners : WorkerStep(k, l)
    \/ \E l \in Listeners : Serve(l) \/ AcceptStep(l)
    \/ \E l \in Listeners, c \in Conns : Accept(l, c)
    \/ \E c \in Conns : Request(c) \/ MarkIdle(c) \/ Finish(c) \/ Hijack(c)
    \/ Fatal \/ MainReturns

Spec == Init /\ [][Next]_vars

(* The goroutines of package graceful run, hooks return and a timer fires; *)
(* signals, clients and handlers owe nothing.  mu is taken again and again *)
(* by others, so getting it needs strong fairness.                         *)
Fairness ==
    /\ WF_vars(Receive) /\ SF_vars(\E k \in Kicks : Kick(k))
    /\ \A k \in Calls : SF_vars(CallStep(k))
    /\ \A k \in Calls, l \in Listeners : SF_vars(WorkerStep(k, l))
    /\ \A l \in Listeners : WF_vars(AcceptStep(l))
LiveSpec == Spec /\ Fairness

-----------------------------------------------------------------------------
(* Properties.                                                             *)

\* The types of the state.
TypeOK ==
    /\ signals \in 0..Cardinality(Kicks) /\ sigchan \in {0, 1}
    /\ sigpc \in {"receive", "kick", "doublekick"}
    /\ mu \in Calls \cup {NoCall} /\ closing \in BOOLEAN /\ waiting \in BOOLEAN
    /\ once \in [{"pre", "close", "force", "post"} -> {"new", "running", "done"}]
    /\ preRun \in 0..NumPre /\ postRun \in 0..NumPost
    /\ listeners \subseteq Listeners
    /\ pc \in [Calls -> {"none", "sleep", "pre", "prelock", "prehook", "close", "flag",
                         "spawn", "join", "post", "postlock", "posthook", "notify",
                         "returned"}]
    /\ force \in [Calls -> BOOLEAN]
    /\ work \in [Calls -> [Listeners -> {"none", "close", "mark", "sweep", "wait", "done"}]]
    /\ accepting \in [Listeners -> BOOLEAN]
    /\ phase \in [Listeners -> {"open", "marking", "marked"}]
    /\ serve \in [Listeners -> {"none", "accept", "track", "returned", "refused",
                                "accept error"}]
    /\ conn \in [Conns -> {"new", "inflight", "idle", "busy", "hijacked", "gone", "cut", "twice"}]
    /\ from \in [Conns -> Listeners] /\ exit \in {"no", "clean", "fatal"}

(* Prehooks are "called before any of this package's normal shutdown       *)
(* actions" (signal.go:43-46), by however many calls shutdown is entered:  *)
(* no listener is closed or drained before the last of them has returned.  *)
PreHooksFirst ==
    (\E l \in Listeners : ~accepting[l] \/ phase[l] # "open") => preRun = NumPre

(* Posthooks are "called after all listening connections have been closed, *)
(* but before Wait() returns" (signal.go:66-68), also when a forced        *)
(* shutdown overtakes a graceful one, but for a listener that has counted  *)
(* twice: once a forced shutdown has cut a request whose handler hijacks,  *)
(* graceful calls do not wait for its other conns.                         *)
PostHooksBetween ==
    /\ postRun > 0 => \A l \in Listeners : Miscounted(l) \/ Outstanding(l) = {}
    /\ ~waiting => postRun = NumPost

(* The program does not end under a request: if main only ends after Wait, *)
(* every request has been answered by then, handed over or cut by force,   *)
(* but for those of a listener that has counted twice.                     *)
NoRequestAtExit ==
    exit # "no" => \A c \in Conns : conn[c] = "busy" => Miscounted(from[c])

(* An accept error that comes of the shutdown itself never makes Serve     *)
(* fail: closing is set before the first listener is closed.               *)
CloseIsPeaceful == \A l \in Listeners : serve[l] # "accept error"

NoneMiscounted == \A l \in Listeners : ~Miscounted(l)

(* A shutdown that is forced, or comes of a signal and is bounded by       *)
(* Timeout, ends whatever the handlers do, even when it comes after a      *)
(* graceful one that never will; signals may be dropped, but never all.    *)
ForcedShutdownEnds ==
    []NoneMiscounted =>
        ((signals > 0 /\ Timers # {}) \/ (\E k \in Calls : Started(k) /\ force[k])) ~> ~waiting

(* A graceful shutdown that nothing bounds or forces ends if every request *)
(* does, be it called for by the program or by a signal.                   *)
GracefulShutdownEnds ==
    []NoneMiscounted /\ (\A c \in Conns : []<>(conn[c] # "busy")) =>
        (signals > 0 \/ \E k \in Calls : Started(k)) ~> ~waiting
=============================================================================
