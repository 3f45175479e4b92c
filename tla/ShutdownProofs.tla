--------------------------- MODULE ShutdownProofs ---------------------------
(***************************************************************************)
(* For any number of listeners, conns, signals, timers and calls of        *)
(* Shutdown: prehooks come before the first listener is closed, posthooks  *)
(* after the last conn has gone, an accept error is never taken for a      *)
(* failure, and no request is cut by the end of a program that waits; the  *)
(* conns of a listener that has counted one twice are nobody's promise.    *)
(***************************************************************************)
EXTENDS Shutdown, FiniteSetTheorems, TLAPS

\* The stages of a call, by the Once it has come to.
BeforePre  == {"none", "sleep", "pre"}
InPre      == {"prelock", "prehook"}
InClose    == {"flag", "spawn", "join"}
AfterClose == {"post", "postlock", "posthook", "notify", "returned"}
InPost     == {"postlock", "posthook"}

\* One call runs the prehooks; no other passes before all of them have returned.
PreOwner ==
    /\ \A k, m \in Calls : pc[k] \in InPre /\ pc[m] \in InPre => k = m
    /\ \A k \in Calls : pc[k] \in InPre => once["pre"] = "running"
    /\ \A k \in Calls : pc[k] \notin BeforePre \cup InPre => once["pre"] = "done"
    /\ once["pre"] = "done" => preRun = NumPre

\* At most one graceful call and one forced call close the listeners at a time,
\* and both have set closing before they start a goroutine.
CloseOwner ==
    /\ \A k, m \in Calls :
          pc[k] \in InClose /\ pc[m] \in InClose /\ force[k] = force[m] => k = m
    /\ \A k \in Calls : pc[k] \in InClose => once[CloseOnce(k)] = "running"
    /\ \A k \in Calls : pc[k] \in AfterClose => once[CloseOnce(k)] = "done"
    /\ \A k \in Calls : pc[k] \in {"spawn", "join"} => closing
    /\ \A o \in {"close", "force"} : once[o] = "done" => closing

\* Posthooks start when one of the two ways of closing is over.
PostOwner ==
    /\ \A k, m \in Calls : pc[k] \in InPost /\ pc[m] \in InPost => k = m
    /\ \A k \in Calls : pc[k] \in InPost => once["post"] = "running"
    /\ \A k \in Calls : pc[k] \in {"notify", "returned"} => once["post"] = "done"
    /\ once["post"] # "new" => "done" \in {once["close"], once["force"]}
    /\ postRun > 0 => once["post"] # "new"
    /\ once["post"] = "done" => postRun = NumPost
    /\ ~waiting => once["post"] = "done"

\* Goroutines work for calls that wait for them, and nobody else touches a listener.
Workers ==
    /\ \A k \in Calls, l \in Listeners :
          work[k][l] # "none" => pc[k] \in {"join"} \cup AfterClose
    /\ \A k \in Calls, l \in Listeners :
          pc[k] \in AfterClose => work[k][l] \in {"none", "done"}
    /\ \A l \in Listeners :
          ~accepting[l] \/ phase[l] # "open" => closing /\ once["pre"] = "done"

\* No conn of l is owed an end by a drain, or none can be counted on.
Clear(l) ==
    Miscounted(l) \/ \A c \in Conns : from[c] = l => conn[c] \notin {"idle", "busy"}

\* A goroutine that has marked its listener leaves it marked, one that is done
\* leaves it clear.
Drains ==
    /\ \A k \in Calls, l \in Listeners :
          /\ work[k][l] \in {"wait", "done"} => phase[l] = "marked"
          /\ work[k][l] = "done" => Clear(l)

\* Conns come by listeners that are served, and those are the ones that are closed.
Served ==
    /\ \A l \in Listeners : serve[l] = "none" <=> l \notin listeners
    /\ \A c \in Conns : serve[from[c]] = "none" => conn[c] = "new"

\* If none is served too late, a call that closes has a goroutine for every
\* listener, and when it is over all of them are drained for good.
NoneLate ==
    ~LateServe =>
        /\ \A k \in Calls : pc[k] = "join" => \A l \in listeners : work[k][l] # "none"
        /\ "done" \in {once["close"], once["force"]} =>
              \A l \in listeners : phase[l] = "marked" /\ Clear(l)

Order == PreOwner /\ CloseOwner /\ PostOwner
Drain == Workers /\ Drains /\ Served /\ NoneLate
IInv == TypeOK /\ Order /\ Drain

\* TypeOK by the part of the state that it is about.
Stages == {"none", "sleep", "pre", "prelock", "prehook", "close", "flag", "spawn", "join",
           "post", "postlock", "posthook", "notify", "returned"}
Jobs == {"none", "close", "mark", "sweep", "wait", "done"}
SigType ==
    /\ signals \in 0..Cardinality(Kicks) /\ sigchan \in {0, 1}
    /\ sigpc \in {"receive", "kick", "doublekick"}
PkgType ==
    /\ mu \in Calls \cup {NoCall} /\ closing \in BOOLEAN /\ listeners \subseteq Listeners
    /\ once \in [{"pre", "close", "force", "post"} -> {"new", "running", "done"}]
HookType == preRun \in 0..NumPre /\ postRun \in 0..NumPost /\ waiting \in BOOLEAN
CallType ==
    /\ pc \in [Calls -> Stages] /\ force \in [Calls -> BOOLEAN]
    /\ work \in [Calls -> [Listeners -> Jobs]]
LisType ==
    /\ accepting \in [Listeners -> BOOLEAN]
    /\ phase \in [Listeners -> {"open", "marking", "marked"}]
    /\ serve \in [Listeners -> {"none", "accept", "track", "returned", "refused",
                                "accept error"}]
ConnType ==
    /\ conn \in [Conns -> {"new", "inflight", "idle", "busy", "hijacked", "gone", "cut", "twice"}]
    /\ from \in [Conns -> Listeners] /\ exit \in {"no", "clean", "fatal"}

-----------------------------------------------------------------------------
USE DEF sigVars, pkgVars, hookVars, callVars, lisVars, connVars, Running, MuFree, Started, At, Goto

LEMMA TypeParts ==
    /\ TypeOK <=> SigType /\ PkgType /\ HookType /\ CallType /\ LisType /\ ConnType
    /\ TypeOK' <=> SigType' /\ PkgType' /\ HookType' /\ CallType' /\ LisType' /\ ConnType'
BY DEF TypeOK, SigType, PkgType, HookType, CallType, LisType, ConnType, Stages, Jobs

LEMMA InitInv == Init => IInv
<1> SUFFICES ASSUME Init PROVE IInv
  OBVIOUS
<1>1. Cardinality(Kicks) \in Nat /\ NumPre \in Nat /\ NumPost \in Nat
  BY FS_CardinalityType, ShutdownAssumption
<1>2. SigType /\ HookType
  BY <1>1 DEF Init, SigType, HookType
<1>7. PkgType
  BY DEF Init, PkgType
<1>3. CallType
  BY DEF Init, CallType, Stages, Jobs
<1>4. LisType /\ ConnType
  BY DEF Init, LisType, ConnType
<1>5. PreOwner /\ CloseOwner /\ PostOwner
  <2>1. \A k \in Calls : pc[k] = "none"
    BY DEF Init
  <2>2. /\ once["pre"] = "new" /\ once["close"] = "new" /\ once["force"] = "new"
        /\ once["post"] = "new"
    BY DEF Init
  <2>3. postRun = 0 /\ waiting
    BY DEF Init
  <2> QED BY <2>1, <2>2, <2>3 DEF PreOwner, CloseOwner, PostOwner, BeforePre, InPre, InClose,
                                  AfterClose, InPost
<1>6. Drain
  BY DEF Init, Drain, Workers, Drains, Served, NoneLate, AfterClose
<1> QED BY <1>2, <1>3, <1>4, <1>5, <1>6, <1>7, TypeParts DEF IInv, Order

LEMMA TypeStep == TypeOK /\ [Next]_vars => TypeOK'
<1> SUFFICES ASSUME SigType, PkgType, HookType, CallType, LisType, ConnType, [Next]_vars
             PROVE  SigType' /\ PkgType' /\ HookType' /\ CallType' /\ LisType' /\ ConnType'
  BY TypeParts
<1> DEFINE Goal == SigType' /\ PkgType' /\ HookType' /\ CallType' /\ LisType' /\ ConnType'
<1>0. Cardinality(Kicks) \in Nat /\ NumPre \in Nat /\ NumPost \in Nat
  BY FS_CardinalityType, ShutdownAssumption
<1>1. CASE Signal \/ Receive
  <2>1. SigType'
    BY <1>0, <1>1 DEF SigType, Signal, Receive
  <2>2. PkgType' /\ HookType' /\ CallType' /\ LisType' /\ ConnType'
    BY <1>1 DEF PkgType, HookType, CallType, LisType, ConnType, Signal, Receive
  <2> QED BY <2>1, <2>2
<1>2. ASSUME NEW k \in Kicks, Kick(k) PROVE Goal
  <2>1. SigType'
    BY <1>2 DEF SigType, Kick
  <2>2. CallType'
    BY <1>2 DEF CallType, Kick, Stages, Calls
  <2>3. PkgType' /\ HookType' /\ LisType' /\ ConnType'
    BY <1>2 DEF PkgType, HookType, LisType, ConnType, Kick
  <2> QED BY <2>1, <2>2, <2>3
<1>3. ASSUME NEW k \in Manuals, NEW f \in BOOLEAN, Manual(k, f) PROVE Goal
  <2>1. CallType'
    BY <1>3 DEF CallType, Manual, Stages, Calls
  <2>2. SigType' /\ PkgType' /\ HookType' /\ LisType' /\ ConnType'
    BY <1>3 DEF SigType, PkgType, HookType, LisType, ConnType, Manual
  <2> QED BY <2>1, <2>2
<1>4. ASSUME NEW k \in Calls, CallStep(k) PROVE Goal
  <2>1. CASE TimerFires(k)
    <3>1. CallType'
      BY <2>1 DEF CallType, TimerFires, Stages
    <3>2. SigType' /\ PkgType' /\ HookType' /\ LisType' /\ ConnType'
      BY <2>1 DEF SigType, PkgType, HookType, LisType, ConnType, TimerFires
    <3> QED BY <3>1, <3>2
  <2>2. CASE Pre(k) \/ Post(k)
    <3>1. PkgType'
      BY <2>2 DEF PkgType, Pre, Post, Do
    <3>2. CallType'
      BY <2>2 DEF CallType, Pre, Post, Do, Stages
    <3>3. SigType' /\ HookType' /\ LisType' /\ ConnType'
      BY <2>2 DEF SigType, HookType, LisType, ConnType, Pre, Post, Do
    <3> QED BY <3>1, <3>2, <3>3
  <2>3. CASE Close(k) \/ Join(k)
    <3>1. PkgType'
      BY <2>3 DEF PkgType, Close, Do, Join, CloseOnce
    <3>2. CallType'
      BY <2>3 DEF CallType, Close, Do, Join, CloseOnce, Stages
    <3>3. SigType' /\ HookType' /\ LisType' /\ ConnType'
      BY <2>3 DEF SigType, HookType, LisType, ConnType, Close, Do, Join, CloseOnce
    <3> QED BY <3>1, <3>2, <3>3
  <2>4. CASE PreLock(k) \/ PostLock(k)
    <3>1. PkgType'
      BY <2>4 DEF PkgType, PreLock, PostLock, HookLock
    <3>2. CallType'
      BY <2>4 DEF CallType, PreLock, PostLock, HookLock, Stages
    <3>3. SigType' /\ HookType' /\ LisType' /\ ConnType'
      BY <2>4 DEF SigType, HookType, LisType, ConnType, PreLock, PostLock, HookLock
    <3> QED BY <3>1, <3>2, <3>3
  <2>5. CASE RunPreHook(k) \/ RunPostHook(k)
    <3>1. HookType'
      BY <1>0, <2>5 DEF HookType, RunPreHook, RunPostHook
    <3>2. SigType' /\ PkgType' /\ CallType' /\ LisType' /\ ConnType'
      BY <2>5 DEF SigType, PkgType, CallType, LisType, ConnType, RunPreHook, RunPostHook
    <3> QED BY <3>1, <3>2
  <2>6. CASE HooksEnd(k)
    <3>1. PkgType'
      BY <2>6 DEF PkgType, HooksEnd
    <3>2. CallType'
      BY <2>6 DEF CallType, HooksEnd, Stages
    <3>3. SigType' /\ HookType' /\ LisType' /\ ConnType'
      BY <2>6 DEF SigType, HookType, LisType, ConnType, HooksEnd
    <3> QED BY <3>1, <3>2, <3>3
  <2>7. CASE Notify(k)
    <3>1. HookType'
      BY <2>7 DEF HookType, Notify
    <3>2. CallType'
      BY <2>7 DEF CallType, Notify, Stages
    <3>3. SigType' /\ PkgType' /\ LisType' /\ ConnType'
      BY <2>7 DEF SigType, PkgType, LisType, ConnType, Notify
    <3> QED BY <3>1, <3>2, <3>3
  <2>8. CASE Flag(k)
    <3>1. PkgType'
      BY <2>8 DEF PkgType, Flag
    <3>2. CallType'
      BY <2>8 DEF CallType, Flag, Stages
    <3>3. SigType' /\ HookType' /\ LisType' /\ ConnType'
      BY <2>8 DEF SigType, HookType, LisType, ConnType, Flag
    <3> QED BY <3>1, <3>2, <3>3
  <2>9. CASE Spawn(k)
    <3>1. CallType'
      BY <2>9 DEF CallType, Spawn, Stages, Jobs
    <3>2. SigType' /\ PkgType' /\ HookType' /\ LisType' /\ ConnType'
      BY <2>9 DEF SigType, PkgType, HookType, LisType, ConnType, Spawn
    <3> QED BY <3>1, <3>2
  <2> QED BY <1>4, <2>1, <2>2, <2>3, <2>4, <2>5, <2>6, <2>7, <2>8, <2>9 DEF CallStep
<1>5. ASSUME NEW k \in Calls, NEW l \in Listeners, WorkerStep(k, l) PROVE Goal
  <2>1. CASE CloseListener(k, l)
    <3>1. CallType'
      BY <2>1 DEF CallType, CloseListener, Work, Jobs
    <3>2. LisType'
      BY <2>1 DEF LisType, CloseListener, Work
    <3>3. SigType' /\ PkgType' /\ HookType' /\ ConnType'
      BY <2>1 DEF SigType, PkgType, HookType, ConnType, CloseListener, Work
    <3> QED BY <3>1, <3>2, <3>3
  <2>2. CASE MarkFirst(k, l)
    <3>1. CallType'
      BY <2>2 DEF CallType, MarkFirst, Work, Jobs
    <3>2. LisType'
      BY <2>2 DEF LisType, MarkFirst, Work
    <3>3. SigType' /\ PkgType' /\ HookType' /\ ConnType'
      BY <2>2 DEF SigType, PkgType, HookType, ConnType, MarkFirst, Work
    <3> QED BY <3>1, <3>2, <3>3
  <2>3. CASE MarkLast(k, l)
    <3>1. CallType'
      BY <2>3 DEF CallType, MarkLast, Work, Jobs
    <3>2. LisType'
      BY <2>3 DEF LisType, MarkLast, Work
    <3>3. SigType' /\ PkgType' /\ HookType' /\ ConnType'
      BY <2>3 DEF SigType, PkgType, HookType, ConnType, MarkLast, Work
    <3> QED BY <3>1, <3>2, <3>3
  <2>4. CASE Drained(k, l)
    <3>1. CallType'
      BY <2>4 DEF CallType, Drained, Work, Jobs
    <3>2. SigType' /\ PkgType' /\ HookType' /\ LisType' /\ ConnType'
      BY <2>4 DEF SigType, PkgType, HookType, LisType, ConnType, Drained, Work
    <3> QED BY <3>1, <3>2
  <2>5. ASSUME NEW c \in Conns, Sweep(k, l, c) PROVE Goal
    <3>1. CallType'
      BY <2>5 DEF CallType, Sweep, Work, Jobs
    <3>2. ConnType'
      BY <2>5 DEF ConnType, Sweep, Work
    <3>3. SigType' /\ PkgType' /\ HookType' /\ LisType'
      BY <2>5 DEF SigType, PkgType, HookType, LisType, Sweep, Work
    <3> QED BY <3>1, <3>2, <3>3
  <2> QED BY <1>5, <2>1, <2>2, <2>3, <2>4, <2>5 DEF WorkerStep
<1>6. ASSUME NEW l \in Listeners, Serve(l) \/ AcceptStep(l) PROVE Goal
  <2>1. CASE Serve(l)
    <3>1. PkgType'
      BY <2>1 DEF PkgType, Serve
    <3>2. LisType'
      BY <2>1 DEF LisType, Serve
    <3>3. SigType' /\ HookType' /\ CallType' /\ ConnType'
      BY <2>1 DEF SigType, HookType, CallType, ConnType, Serve
    <3> QED BY <3>1, <3>2, <3>3
  <2>2. CASE AcceptError(l)
    <3>1. LisType'
      BY <2>2 DEF LisType, AcceptError, Returns
    <3>2. SigType' /\ PkgType' /\ HookType' /\ CallType' /\ ConnType'
      BY <2>2 DEF SigType, PkgType, HookType, CallType, ConnType, AcceptError, Returns
    <3> QED BY <3>1, <3>2
  <2>3. ASSUME NEW c \in Conns, Track(l, c) \/ Refuse(l, c) PROVE Goal
    <3>1. LisType'
      BY <2>3 DEF LisType, Track, Refuse, ConnStep, Returns
    <3>2. ConnType'
      BY <2>3 DEF ConnType, Track, Refuse, ConnStep, Returns
    <3>3. SigType' /\ PkgType' /\ HookType' /\ CallType'
      BY <2>3 DEF SigType, PkgType, HookType, CallType, Track, Refuse, ConnStep, Returns
    <3> QED BY <3>1, <3>2, <3>3
  <2> QED BY <1>6, <2>1, <2>2, <2>3 DEF AcceptStep
<1>7. ASSUME NEW l \in Listeners, NEW c \in Conns, Accept(l, c) PROVE Goal
  <2>1. LisType'
    BY <1>7 DEF LisType, Accept, ConnStep
  <2>2. ConnType'
    BY <1>7 DEF ConnType, Accept, ConnStep
  <2>3. SigType' /\ PkgType' /\ HookType' /\ CallType'
    BY <1>7 DEF SigType, PkgType, HookType, CallType, Accept, ConnStep
  <2> QED BY <2>1, <2>2, <2>3
<1>8. ASSUME NEW c \in Conns, Request(c) \/ MarkIdle(c) \/ Finish(c) \/ Hijack(c) PROVE Goal
  <2>1. ConnType'
    BY <1>8 DEF ConnType, Request, MarkIdle, Finish, Hijack, ConnStep
  <2>2. SigType' /\ PkgType' /\ HookType' /\ CallType' /\ LisType'
    BY <1>8 DEF SigType, PkgType, HookType, CallType, LisType, Request, MarkIdle, Finish, Hijack, ConnStep
  <2> QED BY <2>1, <2>2
<1>9. CASE Fatal \/ MainReturns
  <2>1. ConnType'
    BY <1>9 DEF ConnType, Fatal, MainReturns, End
  <2>2. SigType' /\ PkgType' /\ HookType' /\ CallType' /\ LisType'
    BY <1>9 DEF SigType, PkgType, HookType, CallType, LisType, Fatal, MainReturns, End
  <2> QED BY <2>1, <2>2
<1>10. CASE UNCHANGED vars
  BY <1>10 DEF vars, SigType, PkgType, HookType, CallType, LisType, ConnType
<1> QED BY <1>1, <1>2, <1>3, <1>4, <1>5, <1>6, <1>7, <1>8, <1>9, <1>10 DEF Next

(* The order of hooks and closing: who runs what, and what the others wait *)
(* for.                                                                    *)
LEMMA OrderKept ==
    ASSUME Order, UNCHANGED <<pc, force, once, closing, preRun, postRun, waiting>>
    PROVE  Order'
<1>1. PreOwner'
  BY DEF Order, PreOwner
<1>2. CloseOwner'
  BY DEF Order, CloseOwner, CloseOnce
<1>3. PostOwner'
  BY DEF Order, PostOwner
<1> QED BY <1>1, <1>2, <1>3 DEF Order

LEMMA KickOrder ==
    ASSUME CallType, PkgType, HookType, Order, NEW k \in Kicks, Kick(k)
    PROVE  Order'
<1> USE DEF Kick, Calls, CallType, PkgType, HookType, Stages
<1>1. PreOwner'
  BY DEF Order, PreOwner, BeforePre, InPre
<1>2. CloseOwner'
  BY DEF Order, CloseOwner, CloseOnce, InClose, AfterClose
<1>3. PostOwner'
  BY DEF Order, PostOwner, InPost, AfterClose
<1> QED BY <1>1, <1>2, <1>3 DEF Order

LEMMA ManualOrder ==
    ASSUME CallType, PkgType, HookType, Order, NEW k \in Manuals, NEW f \in BOOLEAN, Manual(k, f)
    PROVE  Order'
<1> USE DEF Manual, Calls, CallType, PkgType, HookType, Stages
<1>1. PreOwner'
  BY DEF Order, PreOwner, BeforePre, InPre
<1>2. CloseOwner'
  BY DEF Order, CloseOwner, CloseOnce, InClose, AfterClose
<1>3. PostOwner'
  BY DEF Order, PostOwner, InPost, AfterClose
<1> QED BY <1>1, <1>2, <1>3 DEF Order

LEMMA TimerOrder ==
    ASSUME CallType, PkgType, HookType, Order, NEW k \in Calls, TimerFires(k)
    PROVE  Order'
<1> USE DEF TimerFires, CallType, PkgType, HookType, Stages
<1>1. PreOwner'
  BY DEF Order, PreOwner, BeforePre, InPre
<1>2. CloseOwner'
  BY DEF Order, CloseOwner, CloseOnce, InClose, AfterClose
<1>3. PostOwner'
  BY DEF Order, PostOwner, InPost, AfterClose
<1> QED BY <1>1, <1>2, <1>3 DEF Order

LEMMA PreOrder ==
    ASSUME CallType, PkgType, HookType, Order, NEW k \in Calls, Pre(k)
    PROVE  Order'
<1> USE DEF Pre, Do, OnceOver, CallType, PkgType, HookType, Stages
<1>1. PreOwner'
  BY DEF Order, PreOwner, BeforePre, InPre
<1>2. CloseOwner'
  BY DEF Order, CloseOwner, CloseOnce, InClose, AfterClose
<1>3. PostOwner'
  BY DEF Order, PostOwner, InPost, AfterClose
<1> QED BY <1>1, <1>2, <1>3 DEF Order

LEMMA PreLockOrder ==
    ASSUME CallType, PkgType, HookType, Order, NEW k \in Calls, PreLock(k)
    PROVE  Order'
<1> USE DEF PreLock, HookLock, CallType, PkgType, HookType, Stages
<1>1. PreOwner'
  BY DEF Order, PreOwner, BeforePre, InPre
<1>2. CloseOwner'
  BY DEF Order, CloseOwner, CloseOnce, InClose, AfterClose
<1>3. PostOwner'
  BY DEF Order, PostOwner, InPost, AfterClose
<1> QED BY <1>1, <1>2, <1>3 DEF Order

LEMMA RunPreHookOrder ==
    ASSUME CallType, PkgType, HookType, Order, NEW k \in Calls, RunPreHook(k)
    PROVE  Order'
<1> USE DEF RunPreHook, CallType, PkgType, HookType, Stages
<1>1. PreOwner'
  BY DEF Order, PreOwner, BeforePre, InPre
<1>2. CloseOwner'
  BY DEF Order, CloseOwner, CloseOnce, InClose, AfterClose
<1>3. PostOwner'
  BY DEF Order, PostOwner, InPost, AfterClose
<1> QED BY <1>1, <1>2, <1>3 DEF Order

LEMMA HooksEndOrder ==
    ASSUME CallType, PkgType, HookType, Order, NEW k \in Calls, HooksEnd(k)
    PROVE  Order'
<1> USE DEF HooksEnd, CallType, PkgType, HookType, Stages
<1>1. PreOwner'
  BY DEF Order, PreOwner, BeforePre, InPre
<1>2. CloseOwner'
  <2>1. CASE At(k, "prehook")
    BY <2>1 DEF Order, CloseOwner, CloseOnce, InClose, AfterClose
  <2>2. CASE At(k, "posthook")
    BY <2>2 DEF Order, CloseOwner, CloseOnce, InClose, AfterClose
  <2> QED BY <2>1, <2>2
<1>3. PostOwner'
  <2>1. CASE At(k, "prehook")
    BY <2>1 DEF Order, PostOwner, InPost, AfterClose
  <2>2. CASE At(k, "posthook")
    BY <2>2 DEF Order, PostOwner, InPost, AfterClose
  <2> QED BY <2>1, <2>2
<1> QED BY <1>1, <1>2, <1>3 DEF Order

LEMMA CloseOrder ==
    ASSUME CallType, PkgType, HookType, Order, NEW k \in Calls, Close(k)
    PROVE  Order'
<1> USE DEF Close, Do, OnceOver, CallType, PkgType, HookType, Stages
<1>1. PreOwner'
  BY DEF Order, PreOwner, BeforePre, InPre
<1>2. CloseOwner'
  BY DEF Order, CloseOwner, CloseOnce, InClose, AfterClose
<1>3. PostOwner'
  BY DEF Order, CloseOwner, CloseOnce, PostOwner, InPost, AfterClose
<1> QED BY <1>1, <1>2, <1>3 DEF Order

LEMMA FlagOrder ==
    ASSUME CallType, PkgType, HookType, Order, NEW k \in Calls, Flag(k)
    PROVE  Order'
<1> USE DEF Flag, CallType, PkgType, HookType, Stages
<1>1. PreOwner'
  BY DEF Order, PreOwner, BeforePre, InPre
<1>2. CloseOwner'
  BY DEF Order, CloseOwner, CloseOnce, InClose, AfterClose
<1>3. PostOwner'
  BY DEF Order, PostOwner, InPost, AfterClose
<1> QED BY <1>1, <1>2, <1>3 DEF Order

LEMMA SpawnOrder ==
    ASSUME CallType, PkgType, HookType, Order, NEW k \in Calls, Spawn(k)
    PROVE  Order'
<1> USE DEF Spawn, CallType, PkgType, HookType, Stages
<1>1. PreOwner'
  BY DEF Order, PreOwner, BeforePre, InPre
<1>2. CloseOwner'
  BY DEF Order, CloseOwner, CloseOnce, InClose, AfterClose
<1>3. PostOwner'
  BY DEF Order, PostOwner, InPost, AfterClose
<1> QED BY <1>1, <1>2, <1>3 DEF Order

LEMMA JoinOrder ==
    ASSUME CallType, PkgType, HookType, Order, NEW k \in Calls, Join(k)
    PROVE  Order'
<1> USE DEF Join, CallType, PkgType, HookType, Stages
<1>1. PreOwner'
  BY DEF Order, PreOwner, BeforePre, InPre
<1>2. CloseOwner'
  BY DEF Order, CloseOwner, CloseOnce, InClose, AfterClose
<1>3. PostOwner'
  BY DEF Order, CloseOwner, CloseOnce, PostOwner, InPost, AfterClose
<1> QED BY <1>1, <1>2, <1>3 DEF Order

LEMMA PostOrder ==
    ASSUME CallType, PkgType, HookType, Order, NEW k \in Calls, Post(k)
    PROVE  Order'
<1> USE DEF Post, Do, OnceOver, CallType, PkgType, HookType, Stages
<1>1. PreOwner'
  BY DEF Order, PreOwner, BeforePre, InPre
<1>2. CloseOwner'
  BY DEF Order, CloseOwner, CloseOnce, InClose, AfterClose
<1>3. PostOwner'
  BY DEF Order, CloseOwner, CloseOnce, PostOwner, InPost, AfterClose
<1> QED BY <1>1, <1>2, <1>3 DEF Order

LEMMA PostLockOrder ==
    ASSUME CallType, PkgType, HookType, Order, NEW k \in Calls, PostLock(k)
    PROVE  Order'
<1> USE DEF PostLock, HookLock, CallType, PkgType, HookType, Stages
<1>1. PreOwner'
  BY DEF Order, PreOwner, BeforePre, InPre
<1>2. CloseOwner'
  BY DEF Order, CloseOwner, CloseOnce, InClose, AfterClose
<1>3. PostOwner'
  BY DEF Order, PostOwner, InPost, AfterClose
<1> QED BY <1>1, <1>2, <1>3 DEF Order

LEMMA RunPostHookOrder ==
    ASSUME CallType, PkgType, HookType, Order, NEW k \in Calls, RunPostHook(k)
    PROVE  Order'
<1> USE DEF RunPostHook, CallType, PkgType, HookType, Stages
<1>1. PreOwner'
  BY DEF Order, PreOwner, BeforePre, InPre
<1>2. CloseOwner'
  BY DEF Order, CloseOwner, CloseOnce, InClose, AfterClose
<1>3. PostOwner'
  BY DEF Order, PostOwner, InPost, AfterClose
<1> QED BY <1>1, <1>2, <1>3 DEF Order

LEMMA NotifyOrder ==
    ASSUME CallType, PkgType, HookType, Order, NEW k \in Calls, Notify(k)
    PROVE  Order'
<1> USE DEF Notify, CallType, PkgType, HookType, Stages
<1>1. PreOwner'
  BY DEF Order, PreOwner, BeforePre, InPre
<1>2. CloseOwner'
  BY DEF Order, CloseOwner, CloseOnce, InClose, AfterClose
<1>3. PostOwner'
  BY DEF Order, PostOwner, InPost, AfterClose
<1> QED BY <1>1, <1>2, <1>3 DEF Order

-----------------------------------------------------------------------------
(* Draining: the goroutines, the listeners and the conns.                  *)

\* Calls move, except to and from the goroutines of closeListeners.
Passes ==
    /\ UNCHANGED <<work, listeners, lisVars, serve, connVars>>
    /\ closing => closing'
    /\ once["pre"] = "done" => once'["pre"] = "done"
    /\ \A o \in {"close", "force"} : once'[o] = "done" => once[o] = "done"
    /\ \A m \in Calls :
          \/ pc'[m] = pc[m]
          \/ pc[m] \notin {"join"} \cup AfterClose /\ pc'[m] # "join"
          \/ pc[m] \in AfterClose /\ pc'[m] \in AfterClose

LEMMA PassesDrain ==
    ASSUME Drain, Passes
    PROVE  Drain'
<1>1. Workers'
  BY DEF Drain, Workers, Passes
<1>2. Drains' /\ Served'
  BY DEF Drain, Drains, Served, Clear, Miscounted, Passes
<1>3. NoneLate'
  <2>1. \A l \in listeners : Clear(l) => Clear(l)'
    BY DEF Clear, Miscounted, Passes
  <2>2. \A m \in Calls : pc'[m] = "join" => pc[m] = "join"
    BY DEF Passes, AfterClose
  <2>3. "done" \in {once'["close"], once'["force"]} => "done" \in {once["close"], once["force"]}
    BY DEF Passes
  <2>4. UNCHANGED <<work, listeners, phase>>
    BY DEF Passes
  <2> QED BY <2>1, <2>2, <2>3, <2>4 DEF Drain, NoneLate
<1> QED BY <1>1, <1>2, <1>3 DEF Drain

LEMMA CallPasses ==
    ASSUME CallType, PkgType, NEW k \in Calls,
           \/ TimerFires(k) \/ Pre(k) \/ PreLock(k) \/ RunPreHook(k) \/ HooksEnd(k)
           \/ Close(k) \/ Flag(k) \/ Post(k) \/ PostLock(k) \/ RunPostHook(k) \/ Notify(k)
    PROVE  Passes
<1> USE DEF CallType, PkgType, Passes, AfterClose
<1>1. CASE TimerFires(k) \/ RunPreHook(k) \/ RunPostHook(k) \/ Notify(k)
  BY <1>1 DEF TimerFires, RunPreHook, RunPostHook, Notify
<1>2. CASE Pre(k) \/ Post(k)
  BY <1>2 DEF Pre, Post, Do, OnceOver
<1>3. CASE Close(k)
  BY <1>3 DEF Close, Do, OnceOver, CloseOnce
<1>4. CASE PreLock(k) \/ PostLock(k)
  BY <1>4 DEF PreLock, PostLock, HookLock
<1>5. CASE HooksEnd(k)
  BY <1>5 DEF HooksEnd
<1>6. CASE Flag(k)
  BY <1>6 DEF Flag
<1> QED BY <1>1, <1>2, <1>3, <1>4, <1>5, <1>6

LEMMA SpawnDrain ==
    ASSUME CallType, PkgType, Order, Drain, NEW k \in Calls, Spawn(k)
    PROVE  Drain'
<1> USE DEF Spawn, CallType, PkgType
<1>1. Workers'
  BY DEF Drain, Workers, AfterClose
<1>2. Drains' /\ Served'
  BY DEF Drain, Drains, Served, Clear, Miscounted
<1>3. NoneLate'
  BY DEF Drain, NoneLate, Clear, Miscounted
<1> QED BY <1>1, <1>2, <1>3 DEF Drain

LEMMA JoinDrain ==
    ASSUME CallType, PkgType, Order, Drain, NEW k \in Calls, Join(k)
    PROVE  Drain'
<1> USE DEF Join, CallType, PkgType
<1>1. Workers'
  BY DEF Drain, Workers, Joined, AfterClose, CloseOnce
<1>2. Drains' /\ Served'
  BY DEF Drain, Drains, Served, Clear, Miscounted
<1>3. ~LateServe => \A l \in listeners : phase[l] = "marked" /\ Clear(l)
  BY DEF Drain, Drains, NoneLate, Joined
<1>4. NoneLate'
  BY <1>3 DEF Drain, NoneLate, Clear, Miscounted
<1> QED BY <1>1, <1>2, <1>4 DEF Drain

\* What no step undoes: a listener that is marked stays so, and is clear for good.
StaysClear == \A l \in Listeners : phase[l] = "marked" /\ Clear(l) => Clear(l)'
StaysMarked == \A l \in Listeners : phase[l] = "marked" => phase'[l] = "marked"

\* Goroutine l of call k goes on; its call waits for it.
Moves(k, l, was, is) ==
    /\ \A m \in Calls, n \in Listeners :
          work'[m][n] = IF m = k /\ n = l THEN is ELSE work[m][n]
    /\ work[k][l] = was /\ pc[k] = "join"
    /\ closing /\ once["pre"] = "done"

LEMMA WorkMoves ==
    ASSUME CallType, Order, Drain, NEW k \in Calls, NEW l \in Listeners,
           NEW was \in {"close", "mark", "sweep", "wait"}, NEW is, Work(k, l, was, is)
    PROVE  Moves(k, l, was, is)
<1>1. work[k][l] = was /\ work' = [work EXCEPT ![k][l] = is]
  BY DEF Work
<1>2. \A m \in Calls, n \in Listeners :
         work'[m][n] = IF m = k /\ n = l THEN is ELSE work[m][n]
  BY <1>1 DEF CallType
<1>3. pc[k] = "join"
  BY <1>1 DEF Drain, Workers
<1>4. closing /\ once["pre"] = "done"
  BY <1>3 DEF Order, CloseOwner, PreOwner, BeforePre, InPre
<1> QED BY <1>1, <1>2, <1>3, <1>4 DEF Moves

(* A step of a goroutine, by what it does to its listener and the conns.   *)
LEMMA WorkerDrain ==
    ASSUME listeners \subseteq Listeners, Drain, NEW k \in Calls, NEW l \in Listeners,
           NEW was, NEW is \in {"mark", "sweep", "wait", "done"}, Moves(k, l, was, is),
           UNCHANGED <<pkgVars, pc, force, serve, from>>, StaysClear, StaysMarked,
           is \in {"wait", "done"} => phase'[l] = "marked",
           is = "done" => Clear(l)',
           \A n \in Listeners \ {l} : phase'[n] = phase[n] /\ accepting'[n] = accepting[n],
           \A c \in Conns : conn[c] = "new" => conn'[c] = "new"
    PROVE  Drain'
<1>1. Workers'
  BY DEF Drain, Workers, Moves, AfterClose
<1>2. Drains'
  BY DEF Drain, Drains, Moves, StaysClear, StaysMarked
<1>3. Served'
  BY DEF Drain, Served
<1>4. NoneLate'
  BY DEF Drain, NoneLate, Moves, StaysClear, StaysMarked
<1> QED BY <1>1, <1>2, <1>3, <1>4 DEF Drain

LEMMA WorkerStepDrain ==
    ASSUME TypeOK, Order, Drain, NEW k \in Calls, NEW l \in Listeners, WorkerStep(k, l)
    PROVE  Drain'
<1>0. CallType /\ LisType /\ ConnType /\ listeners \subseteq Listeners
  BY TypeParts DEF PkgType
<1>1. CASE CloseListener(k, l)
  <2>1. Moves(k, l, "close", "mark")
    BY <1>0, <1>1, WorkMoves DEF CloseListener
  <2>2. StaysClear /\ StaysMarked
    BY <1>1 DEF CloseListener, Work, StaysClear, StaysMarked, Clear, Miscounted
  <2>3. \A n \in Listeners \ {l} : phase'[n] = phase[n] /\ accepting'[n] = accepting[n]
    BY <1>0, <1>1 DEF CloseListener, LisType
  <2> QED BY <1>0, <1>1, <2>1, <2>2, <2>3, WorkerDrain DEF CloseListener, Work
<1>2. CASE MarkFirst(k, l)
  <2>1. Moves(k, l, "mark", "sweep")
    BY <1>0, <1>2, WorkMoves DEF MarkFirst
  <2>2. StaysClear /\ StaysMarked
    BY <1>0, <1>2 DEF MarkFirst, Work, StaysClear, StaysMarked, Clear, Miscounted, LisType
  <2>3. \A n \in Listeners \ {l} : phase'[n] = phase[n] /\ accepting'[n] = accepting[n]
    BY <1>0, <1>2 DEF MarkFirst, LisType
  <2> QED BY <1>0, <1>2, <2>1, <2>2, <2>3, WorkerDrain DEF MarkFirst, Work
<1>3. CASE MarkLast(k, l)
  <2>1. Moves(k, l, "sweep", "wait")
    BY <1>0, <1>3, WorkMoves DEF MarkLast
  <2>2. StaysClear /\ StaysMarked
    BY <1>0, <1>3 DEF MarkLast, Work, StaysClear, StaysMarked, Clear, Miscounted, LisType
  <2>3. \A n \in Listeners \ {l} : phase'[n] = phase[n] /\ accepting'[n] = accepting[n]
    BY <1>0, <1>3 DEF MarkLast, LisType
  <2>4. phase'[l] = "marked"
    BY <1>0, <1>3 DEF MarkLast, LisType
  <2> QED BY <1>0, <1>3, <2>1, <2>2, <2>3, <2>4, WorkerDrain DEF MarkLast, Work
<1>4. CASE Drained(k, l)
  <2>1. Moves(k, l, "wait", "done")
    BY <1>0, <1>4, WorkMoves DEF Drained
  <2>2. StaysClear /\ StaysMarked
    BY <1>4 DEF Drained, Work, StaysClear, StaysMarked, Clear, Miscounted
  <2>3. phase'[l] = "marked" /\ Clear(l)'
    BY <1>4, <2>1 DEF Drained, Work, Drain, Drains, Moves, Outstanding, Clear, Miscounted
  <2> QED BY <1>0, <1>4, <2>1, <2>2, <2>3, WorkerDrain DEF Drained, Work
<1>5. ASSUME NEW c \in Conns, Sweep(k, l, c) PROVE Drain'
  <2>1. PICK w \in {"sweep", "wait"} : Work(k, l, w, w)
    BY <1>5 DEF Sweep
  <2>2. Moves(k, l, w, w)
    BY <1>0, <2>1, WorkMoves
  <2>3. conn[c] # "new" /\ conn[c] # "twice" /\ conn' = [conn EXCEPT ![c] = IF @ = "busy" THEN "cut" ELSE "gone"]
    BY <1>5 DEF Sweep, Closes
  <2>4. StaysClear /\ StaysMarked
    BY <1>0, <1>5, <2>1, <2>3 DEF Sweep, Work, StaysClear, StaysMarked, Clear, Miscounted, ConnType
  <2>5. w = "wait" => phase'[l] = "marked"
    BY <1>5, <2>1 DEF Sweep, Work, Drain, Drains
  <2>6. \A d \in Conns : conn[d] = "new" => conn'[d] = "new"
    BY <1>0, <2>3 DEF ConnType
  <2>7. UNCHANGED <<pkgVars, pc, force, serve, from, lisVars>>
    BY <1>5, <2>1 DEF Sweep, Work
  <2> QED BY <1>0, <2>2, <2>4, <2>5, <2>6, <2>7, WorkerDrain
<1> QED BY <1>1, <1>2, <1>3, <1>4, <1>5 DEF WorkerStep

(* A step of Serve or of a conn.                                           *)
LEMMA WorldDrain ==
    ASSUME listeners \subseteq Listeners, Drain, Served', StaysClear,
           UNCHANGED <<mu, once, closing, listeners, callVars, lisVars>>
    PROVE  Drain'
<1>1. Workers'
  BY DEF Drain, Workers
<1>2. Drains'
  BY DEF Drain, Drains, StaysClear
<1>3. NoneLate'
  BY DEF Drain, NoneLate, StaysClear
<1> QED BY <1>1, <1>2, <1>3 DEF Drain

LEMMA ServeDrain ==
    ASSUME TypeOK, Order, Drain, NEW l \in Listeners, Serve(l)
    PROVE  Drain'
<1>0. LisType /\ ConnType /\ PkgType
  BY TypeParts
<1>1. Workers' /\ Drains'
  BY DEF Drain, Workers, Drains, Clear, Miscounted, Serve
<1>2. Served'
  BY <1>0 DEF Drain, Served, Serve, LisType, ConnType
<1>3. ~LateServe => \A k \in Calls : pc[k] # "join"
  BY DEF Serve, Order, CloseOwner, CloseOnce, InClose
<1>4. NoneLate'
  BY <1>3 DEF NoneLate, Serve
<1> QED BY <1>1, <1>2, <1>4 DEF Drain

LEMMA AcceptDrain ==
    ASSUME TypeOK, Order, Drain, NEW l \in Listeners,
           AcceptError(l) \/ \E c \in Conns : Accept(l, c) \/ Track(l, c) \/ Refuse(l, c)
    PROVE  Drain'
<1>0. LisType /\ ConnType /\ listeners \subseteq Listeners
  BY TypeParts DEF PkgType
<1>1. CASE AcceptError(l)
  <2>1. StaysClear
    BY <1>1 DEF AcceptError, StaysClear, Clear, Miscounted
  <2>2. Served'
    BY <1>0, <1>1 DEF AcceptError, Returns, Drain, Served, LisType, ConnType
  <2> QED BY <1>0, <1>1, <2>1, <2>2, WorldDrain DEF AcceptError
<1>2. ASSUME NEW c \in Conns, Accept(l, c) PROVE Drain'
  <2>1. StaysClear
    BY <1>0, <1>2 DEF Accept, ConnStep, StaysClear, Clear, Miscounted, ConnType
  <2>2. Served'
    BY <1>0, <1>2 DEF Accept, ConnStep, Drain, Served, LisType, ConnType
  <2> QED BY <1>0, <1>2, <2>1, <2>2, WorldDrain DEF Accept, ConnStep
<1>3. ASSUME NEW c \in Conns, Track(l, c) PROVE Drain'
  <2>1. StaysClear
    BY <1>0, <1>3 DEF Track, ConnStep, StaysClear, Clear, Miscounted, ConnType
  <2>2. Served'
    BY <1>0, <1>3 DEF Track, ConnStep, Drain, Served, LisType, ConnType
  <2> QED BY <1>0, <1>3, <2>1, <2>2, WorldDrain DEF Track, ConnStep
<1>4. ASSUME NEW c \in Conns, Refuse(l, c) PROVE Drain'
  <2>1. StaysClear
    BY <1>0, <1>4 DEF Refuse, ConnStep, StaysClear, Clear, Miscounted, ConnType
  <2>2. Served'
    BY <1>0, <1>4 DEF Refuse, ConnStep, Returns, Drain, Served, LisType, ConnType
  <2> QED BY <1>0, <1>4, <2>1, <2>2, WorldDrain DEF Refuse, ConnStep
<1> QED BY <1>1, <1>2, <1>3, <1>4

LEMMA ConnDrain ==
    ASSUME TypeOK, Order, Drain, NEW c \in Conns,
           Request(c) \/ MarkIdle(c) \/ Finish(c) \/ Hijack(c)
    PROVE  Drain'
<1>0. ConnType /\ listeners \subseteq Listeners
  BY TypeParts DEF PkgType
<1>1. UNCHANGED <<pkgVars, callVars, lisVars, serve, from>>
  BY DEF Request, MarkIdle, Finish, Hijack, ConnStep
<1>2. /\ conn[c] \in {"idle", "busy", "cut"}
      /\ \A d \in Conns \ {c} : conn'[d] = conn[d]
      /\ phase[from[c]] = "marked" => conn'[c] \in {"busy", "gone", "hijacked", "twice"}
      /\ conn[c] = "cut" => conn'[c] \in {"gone", "twice"}
  BY <1>0 DEF Request, MarkIdle, Finish, Hijack, ConnStep, ConnType
<1>3. StaysClear
  <2>1. \A l \in Listeners : Miscounted(l) => Miscounted(l)'
    BY <1>1, <1>2 DEF Miscounted
  <2>2. ASSUME NEW l \in Listeners, phase[l] = "marked", NEW d \in Conns, from[d] = l,
               conn[d] \notin {"idle", "busy"}
        PROVE  conn'[d] \notin {"idle", "busy"}
    BY <1>2, <2>2
  <2> QED BY <1>1, <2>1, <2>2 DEF StaysClear, Clear
<1>4. Served'
  BY <1>1, <1>2 DEF Drain, Served
<1> QED BY <1>0, <1>1, <1>3, <1>4, WorldDrain

-----------------------------------------------------------------------------
LEMMA OrderStep == TypeOK /\ Order /\ [Next]_vars => Order'
<1> SUFFICES ASSUME TypeOK, Order, [Next]_vars PROVE Order'
  OBVIOUS
<1>0. CallType /\ PkgType /\ HookType
  BY TypeParts
<1>1. CASE Signal \/ Receive \/ Fatal \/ MainReturns \/ UNCHANGED vars
  BY <1>1, OrderKept DEF Signal, Receive, Fatal, MainReturns, End, vars
<1>2. ASSUME NEW k \in Kicks, Kick(k) PROVE Order'
  BY <1>0, <1>2, KickOrder
<1>3. ASSUME NEW k \in Manuals, NEW f \in BOOLEAN, Manual(k, f) PROVE Order'
  BY <1>0, <1>3, ManualOrder
<1>4. ASSUME NEW k \in Calls, CallStep(k) PROVE Order'
  BY <1>0, <1>4, TimerOrder, PreOrder, PreLockOrder, RunPreHookOrder, HooksEndOrder, CloseOrder,
     FlagOrder, SpawnOrder, JoinOrder, PostOrder, PostLockOrder, RunPostHookOrder, NotifyOrder
     DEF CallStep
<1>5. ASSUME NEW k \in Calls, NEW l \in Listeners, WorkerStep(k, l) PROVE Order'
  <2>1. \E was, is : Work(k, l, was, is)
    BY <1>5 DEF WorkerStep, CloseListener, MarkFirst, MarkLast, Drained, Sweep
  <2> QED BY <2>1, OrderKept DEF Work
<1>6. ASSUME NEW l \in Listeners, Serve(l) \/ AcceptStep(l) PROVE Order'
  BY <1>6, OrderKept DEF Serve, AcceptStep, AcceptError, Track, Refuse, ConnStep
<1>7. ASSUME NEW l \in Listeners, NEW c \in Conns, Accept(l, c) PROVE Order'
  BY <1>7, OrderKept DEF Accept, ConnStep
<1>8. ASSUME NEW c \in Conns, Request(c) \/ MarkIdle(c) \/ Finish(c) \/ Hijack(c) PROVE Order'
  BY <1>8, OrderKept DEF Request, MarkIdle, Finish, Hijack, ConnStep
<1> QED BY <1>1, <1>2, <1>3, <1>4, <1>5, <1>6, <1>7, <1>8 DEF Next

LEMMA DrainStep == IInv /\ [Next]_vars => Drain'
<1> SUFFICES ASSUME TypeOK, Order, Drain, [Next]_vars PROVE Drain'
  BY DEF IInv
<1>0. CallType /\ PkgType
  BY TypeParts
<1>1. CASE Signal \/ Receive \/ Fatal \/ MainReturns \/ UNCHANGED vars
  <2>1. UNCHANGED <<pkgVars, callVars, lisVars, serve, connVars>>
    BY <1>1 DEF Signal, Receive, Fatal, MainReturns, End, vars
  <2>2. Passes
    BY <2>1 DEF Passes
  <2> QED BY <2>2, PassesDrain
<1>2. ASSUME NEW k \in Kicks, Kick(k) PROVE Drain'
  <2>1. Passes
    BY <1>0, <1>2 DEF Kick, Passes, CallType, AfterClose, Calls
  <2> QED BY <2>1, PassesDrain
<1>3. ASSUME NEW k \in Manuals, NEW f \in BOOLEAN, Manual(k, f) PROVE Drain'
  <2>1. Passes
    BY <1>0, <1>3 DEF Manual, Passes, CallType, AfterClose, Calls
  <2> QED BY <2>1, PassesDrain
<1>4. ASSUME NEW k \in Calls, CallStep(k) PROVE Drain'
  BY <1>0, <1>4, CallPasses, PassesDrain, SpawnDrain, JoinDrain DEF CallStep
<1>5. ASSUME NEW k \in Calls, NEW l \in Listeners, WorkerStep(k, l) PROVE Drain'
  BY <1>5, WorkerStepDrain
<1>6. ASSUME NEW l \in Listeners, Serve(l) \/ AcceptStep(l) PROVE Drain'
  BY <1>6, ServeDrain, AcceptDrain DEF AcceptStep
<1>7. ASSUME NEW l \in Listeners, NEW c \in Conns, Accept(l, c) PROVE Drain'
  BY <1>7, AcceptDrain
<1>8. ASSUME NEW c \in Conns, Request(c) \/ MarkIdle(c) \/ Finish(c) \/ Hijack(c) PROVE Drain'
  BY <1>8, ConnDrain
<1> QED BY <1>1, <1>2, <1>3, <1>4, <1>5, <1>6, <1>7, <1>8 DEF Next

-----------------------------------------------------------------------------
(* The inductive invariant: the types, who is inside which Once and what   *)
(* is over when it is done, and how far each goroutine has brought its     *)
(* listener.                                                               *)
THEOREM ShutdownInvariant == Spec => []IInv
<1>1. IInv /\ [Next]_vars => IInv'
  BY TypeStep, OrderStep, DrainStep DEF IInv
<1> QED BY InitInv, <1>1, PTL DEF Spec

\* The state keeps its types, for any number of calls, listeners and hooks.
THEOREM TypeCorrect == Spec => []TypeOK
BY ShutdownInvariant, PTL DEF IInv

(* However many signals, timers and calls enter shutdown, no listener is   *)
(* closed or drained before the last prehook has returned.                 *)
THEOREM PreHooksComeFirst == Spec => []PreHooksFirst
<1>1. IInv => PreHooksFirst
  BY DEF IInv, Order, Drain, PreOwner, Workers, PreHooksFirst
<1> QED BY <1>1, ShutdownInvariant, PTL

(* An accept error follows the closing of the listener, which follows the  *)
(* flag: Serve takes none for a failure.  A step that ends an accept loop  *)
(* with one starts in a state where closing is set.                        *)
THEOREM AcceptErrorsArePeaceful == Spec => []CloseIsPeaceful
<1>1. Init => CloseIsPeaceful
  BY DEF Init, CloseIsPeaceful
<1>2. IInv /\ CloseIsPeaceful /\ [Next]_vars => CloseIsPeaceful'
  <2> SUFFICES ASSUME IInv, CloseIsPeaceful, [Next]_vars PROVE CloseIsPeaceful'
    OBVIOUS
  <2>0. LisType
    BY TypeParts DEF IInv
  <2>1. CASE serve' = serve
    BY <2>1 DEF CloseIsPeaceful
  <2>2. ASSUME NEW l \in Listeners, Serve(l) \/ \E c \in Conns : Accept(l, c) \/ Track(l, c)
        PROVE  CloseIsPeaceful'
    BY <2>0, <2>2 DEF Serve, Accept, Track, CloseIsPeaceful, LisType
  <2>3. ASSUME NEW l \in Listeners, NEW c \in Conns, Refuse(l, c) PROVE CloseIsPeaceful'
    BY <2>0, <2>3 DEF Refuse, Returns, Peaceful, CloseIsPeaceful, LisType
  <2>4. ASSUME NEW l \in Listeners, AcceptError(l) PROVE CloseIsPeaceful'
    <3>1. closing
      BY <2>4 DEF AcceptError, IInv, Drain, Workers
    <3> QED BY <2>0, <2>4, <3>1 DEF AcceptError, Returns, Peaceful, CloseIsPeaceful, LisType
  <2>5. ASSUME NEW k \in Calls, CallStep(k) \/ Kick(k) PROVE serve' = serve
    BY <2>5 DEF CallStep, TimerFires, Pre, PreLock, RunPreHook, HooksEnd, Close, Flag, Spawn, Join,
           Post, PostLock, RunPostHook, Notify, Do, HookLock, Kick
  <2>6. ASSUME NEW k \in Calls, NEW l \in Listeners, WorkerStep(k, l) PROVE serve' = serve
    BY <2>6 DEF WorkerStep, CloseListener, MarkFirst, MarkLast, Drained, Sweep, Work
  <2>7. ASSUME NEW c \in Conns, Request(c) \/ MarkIdle(c) \/ Finish(c) \/ Hijack(c)
        PROVE  serve' = serve
    BY <2>7 DEF Request, MarkIdle, Finish, Hijack, ConnStep
  <2>8. ASSUME NEW k \in Manuals, NEW f \in BOOLEAN, Manual(k, f) PROVE serve' = serve
    BY <2>8 DEF Manual
  <2>9. CASE Signal \/ Receive \/ Fatal \/ MainReturns \/ UNCHANGED vars
    BY <2>1, <2>9 DEF Signal, Receive, Fatal, MainReturns, End, vars
  <2>10. CASE \E k \in Kicks : Kick(k)
    BY <2>1, <2>5, <2>10 DEF Calls
  <2> QED BY <2>1, <2>2, <2>3, <2>4, <2>5, <2>6, <2>7, <2>8, <2>9, <2>10 DEF Next, AcceptStep
<1> QED BY <1>1, <1>2, ShutdownInvariant, PTL DEF Spec

\* No posthook runs, and no Wait returns, with a conn left to a listener.
LEMMA PostAfterDrain ==
    ASSUME IInv, ~LateServe, once["post"] # "new"
    PROVE  \A c \in Conns : Miscounted(from[c]) \/ conn[c] \notin {"idle", "busy"}
<1>1. \A l \in listeners : Clear(l)
  BY DEF IInv, Order, PostOwner, Drain, NoneLate
<1>2. \A c \in Conns : from[c] \in Listeners
  BY TypeParts DEF IInv, ConnType
<1>3. \A c \in Conns : from[c] \notin listeners => conn[c] = "new"
  BY <1>2 DEF IInv, Drain, Served
<1> QED BY <1>1, <1>2, <1>3 DEF Clear

(* Unless a listener is served after the closing has begun, posthooks run  *)
(* when every conn has gone, also when a forced shutdown overtakes a       *)
(* graceful one, and Wait returns when all of them have run; a listener    *)
(* that has counted one of its conns twice is excepted.                    *)
THEOREM PostHooksComeBetween == ASSUME ~LateServe PROVE Spec => []PostHooksBetween
<1>1. IInv => PostHooksBetween
  BY PostAfterDrain DEF IInv, Order, PostOwner, PostHooksBetween, Outstanding
<1> QED BY <1>1, ShutdownInvariant, PTL

\* A main that returned from Wait has left no request behind.
CleanEnd == exit = "clean" => \A c \in Conns : conn[c] = "busy" => Miscounted(from[c])

(* A main that returns from Wait ends under no request, however many       *)
(* shutdowns have run at once.                                             *)
THEOREM WaitOutlivesRequests == ASSUME ~LateServe PROVE Spec => []CleanEnd
<1>1. Init => CleanEnd
  BY DEF Init, CleanEnd
<1>2. IInv /\ CleanEnd /\ [Next]_vars => CleanEnd'
  <2> SUFFICES ASSUME IInv, CleanEnd, [Next]_vars PROVE CleanEnd'
    OBVIOUS
  <2>1. CASE MainReturns
    <3>1. once["post"] # "new"
      BY <2>1 DEF MainReturns, IInv, Order, PostOwner
    <3>2. conn' = conn /\ from' = from
      BY <2>1 DEF MainReturns, End
    <3> QED BY <3>1, <3>2, PostAfterDrain DEF CleanEnd, Miscounted
  <2>2. CASE Fatal
    BY <2>2 DEF Fatal, End, CleanEnd
  <2>3. CASE UNCHANGED vars
    BY <2>3 DEF vars, CleanEnd, Miscounted
  <2> USE DEF CleanEnd, Miscounted
  <2>4. CASE Signal \/ Receive
    BY <2>4 DEF Signal, Receive
  <2>5. ASSUME NEW k \in Kicks, Kick(k) PROVE CleanEnd'
    BY <2>5 DEF Kick
  <2>6. ASSUME NEW k \in Manuals, NEW f \in BOOLEAN, Manual(k, f) PROVE CleanEnd'
    BY <2>6 DEF Manual
  <2>7. ASSUME NEW k \in Calls, CallStep(k) PROVE CleanEnd'
    BY <2>7 DEF CallStep, TimerFires, Pre, PreLock, RunPreHook, HooksEnd, Close, Flag, Spawn, Join,
           Post, PostLock, RunPostHook, Notify, Do, HookLock
  <2>8. ASSUME NEW k \in Calls, NEW l \in Listeners, WorkerStep(k, l) PROVE CleanEnd'
    BY <2>8 DEF WorkerStep, CloseListener, MarkFirst, MarkLast, Drained, Sweep, Work
  <2>9. ASSUME NEW l \in Listeners, Serve(l) \/ AcceptStep(l) PROVE CleanEnd'
    BY <2>9 DEF Serve, AcceptStep, AcceptError, Track, Refuse, ConnStep
  <2>10. ASSUME NEW l \in Listeners, NEW c \in Conns, Accept(l, c) PROVE CleanEnd'
    BY <2>10 DEF Accept, ConnStep
  <2>11. ASSUME NEW c \in Conns, Request(c) \/ MarkIdle(c) \/ Finish(c) \/ Hijack(c)
         PROVE  CleanEnd'
    BY <2>11 DEF Request, MarkIdle, Finish, Hijack, ConnStep
  <2> QED BY <2>1, <2>2, <2>3, <2>4, <2>5, <2>6, <2>7, <2>8, <2>9, <2>10, <2>11 DEF Next
<1> QED BY <1>1, <1>2, ShutdownInvariant, PTL DEF Spec

(* Where main does not give up on an error of Serve, as goji.Serve does,   *)
(* no request is cut by the end of the program.                            *)
THEOREM NoRequestIsCut == ASSUME ~LateServe, ~FatalServe PROVE Spec => []NoRequestAtExit
<1> DEFINE NotFatal == exit # "fatal"
<1>1. Init => NotFatal
  BY DEF Init
<1>2. NotFatal /\ [Next]_vars => NotFatal'
  <2>1. ~Fatal
    BY DEF Fatal
  <2>2. Signal \/ Receive \/ MainReturns \/ UNCHANGED vars => exit' \in {exit, "clean"}
    BY DEF Signal, Receive, MainReturns, End, vars
  <2>3. ASSUME NEW k \in Kicks, Kick(k) PROVE exit' = exit
    BY <2>3 DEF Kick
  <2>4. ASSUME NEW k \in Manuals, NEW f \in BOOLEAN, Manual(k, f) PROVE exit' = exit
    BY <2>4 DEF Manual
  <2>5. ASSUME NEW k \in Calls, CallStep(k) PROVE exit' = exit
    BY <2>5 DEF CallStep, TimerFires, Pre, PreLock, RunPreHook, HooksEnd, Close, Flag, Spawn, Join,
           Post, PostLock, RunPostHook, Notify, Do, HookLock
  <2>6. ASSUME NEW k \in Calls, NEW l \in Listeners, WorkerStep(k, l) PROVE exit' = exit
    BY <2>6 DEF WorkerStep, CloseListener, MarkFirst, MarkLast, Drained, Sweep, Work
  <2>7. ASSUME NEW l \in Listeners, Serve(l) \/ AcceptStep(l) PROVE exit' = exit
    BY <2>7 DEF Serve, AcceptStep, AcceptError, Track, Refuse, ConnStep
  <2>8. ASSUME NEW l \in Listeners, NEW c \in Conns, Accept(l, c) PROVE exit' = exit
    BY <2>8 DEF Accept, ConnStep
  <2>9. ASSUME NEW c \in Conns, Request(c) \/ MarkIdle(c) \/ Finish(c) \/ Hijack(c)
        PROVE  exit' = exit
    BY <2>9 DEF Request, MarkIdle, Finish, Hijack, ConnStep
  <2> QED BY <2>1, <2>2, <2>3, <2>4, <2>5, <2>6, <2>7, <2>8, <2>9 DEF Next
<1>3. TypeOK /\ NotFatal /\ CleanEnd => NoRequestAtExit
  BY DEF TypeOK, CleanEnd, NoRequestAtExit
<1> QED BY <1>1, <1>2, <1>3, TypeCorrect, WaitOutlivesRequests, PTL DEF Spec
=============================================================================
