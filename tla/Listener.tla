------------------------------ MODULE Listener ------------------------------
(***************************************************************************)
(* graceful/listener: a net.Listener that counts its connections, knows    *)
(* which of them are idle, and can close the idle ones and wait for the    *)
(* others.                                                                 *)
(*                                                                         *)
(* A step is what one goroutine does between two points where another can  *)
(* interfere: a critical section of shard.mu, the acquisition of conn.mu   *)
(* with the decision taken under it, an I/O call, an operation on the      *)
(* WaitGroup.  conn.mu is a variable because its sections call the shard   *)
(* and the network; shard.mu is one because closeConns has to release it   *)
(* before it closes anything (shard.go:78-80).                             *)
(***************************************************************************)
EXTENDS Integers, FiniteSets

CONSTANTS Conns,      \* the connections the wrapped net.Listener can deliver
          Users,      \* goroutines that accept and use connections
          Sweepers,   \* goroutines that call CloseIdle, Drain and DrainAll
          NumShards,  \* len(t.shards): 2*runtime.NumCPU() in the code
          Modes,      \* the modes Wrap may be called with
          NoProc,     \* the owner of a free mutex
          NoConn      \* the conn of a goroutine that is not in a call on one

Procs  == Users \cup Sweepers
Shards == 0 .. NumShards - 1

ASSUME ListenerAssumption ==
    /\ IsFiniteSet(Conns) /\ NoConn \notin Conns
    /\ NumShards \in Nat \ {0}
    /\ Modes \subseteq {"Manual", "Automatic", "Deadline"}
    /\ NoProc \notin Procs

VARIABLES
    mode, accepting, connCount,     \* T: mode, the wrapped listener is open
    drain, all, idle, wg, smu,      \* shards; conn c is in the sets of shard[c]
                                    \* (wg: the WaitGroups' counters, as Add leaves them)
    shard, accepted, live,          \* c.shard; delivered; returned by Accept
    busy, closed, disowned, cmu,    \* the state machine of conn and its mutex
    open,                           \* net.Conns nobody has closed yet
    pc, cn, sweep, at, todo,        \* goroutines: see below
    drained, serving                \* history

(***************************************************************************)
(* Goroutine g is at pc[g], in a call on conn cn[g]; when it runs a sweep  *)
(* (CloseIdle, Drain or DrainAll) it has reached shard at[g] and still has *)
(* the conns todo[g] of that shard to close.                               *)
(*                                                                         *)
(* drained: some Drain or DrainAll has returned.  serving: the conns a     *)
(* caller was told are in use, by a Read that returned data or a MarkInUse,*)
(* and that nobody has marked idle, closed, disowned or, in DrainAll,      *)
(* asked to be closed since.                                               *)
(***************************************************************************)
tVars     == <<mode, accepting, connCount>>
identity  == <<shard, accepted, live>>
shardVars == <<drain, all, idle, wg, smu>>
connVars  == <<identity, busy, closed, disowned, cmu, open>>
walk      == <<sweep, at, todo>>
ghostVars == <<drained, serving>>
vars == <<tVars, shardVars, connVars, pc, cn, walk, ghostVars>>

Sweeps == {"CloseIdle", "Drain", "DrainAll"}
\* The pcs at which a goroutine holds the mutex of its conn.
Holding == {"unlist", "hangup", "done", "disown", "release", "use", "rest"}
\* The pcs at which it is in no call on a conn.
Walking == {"ready", "shard", "unlock", "close", "wait", "panicked"}
PCs == Holding \cup Walking \cup {"add", "track", "refuse", "reading", "gotData",
                                 "gotError", "deadline"}

Init ==
    /\ mode \in Modes /\ accepting = TRUE /\ connCount = 0
    /\ drain = {} /\ all = {} /\ idle = {}
    /\ wg = [s \in Shards |-> 0]
    /\ smu = [s \in Shards |-> NoProc]
    /\ shard = [c \in Conns |-> 0]
    /\ accepted = {} /\ live = {} /\ open = {}
    /\ busy = {} /\ closed = {} /\ disowned = {}
    /\ cmu = [c \in Conns |-> NoProc]
    /\ pc = [g \in Procs |-> "ready"]
    /\ cn = [g \in Procs |-> NoConn]
    /\ sweep = [g \in Procs |-> "none"]
    /\ at = [g \in Procs |-> 0]
    /\ todo = [g \in Procs |-> {}]
    /\ drained = FALSE /\ serving = {}

-----------------------------------------------------------------------------
(* Control flow of a goroutine, and the two kinds of mutex.                *)

At(g, l) == pc[g] = l
Goto(g, l) == pc' = [pc EXCEPT ![g] = l] /\ UNCHANGED cn
Enter(g, l, c) == pc' = [pc EXCEPT ![g] = l] /\ cn' = [cn EXCEPT ![g] = c]
\* The call on a conn returns: to the sweep that made it, or to the caller.
Return(g) == Enter(g, IF sweep[g] = "none" THEN "ready" ELSE "close", NoConn)

Lock(g, c) == cmu[c] = NoProc /\ cmu' = [cmu EXCEPT ![c] = g]
Unlock(c) == cmu' = [cmu EXCEPT ![c] = NoProc]
ShardFree(s) == smu[s] = NoProc

Managed(c) == c \notin closed \cup disowned

(***************************************************************************)
(* WaitGroup.Add changes the counter and then, if it is below zero, panics *)
(* (Done is Add(-1)).  The panic ends every goroutine of the program       *)
(* unless the goroutine's caller recovers it, as net/http does for the     *)
(* handlers it runs; sweeps are run by goroutines that do not.             *)
(***************************************************************************)
Add(s, n) == wg' = [wg EXCEPT ![s] = @ + n]
Panic(g) ==
    \/ /\ pc' = [h \in Procs |-> "panicked"]
       /\ cn' = [h \in Procs |-> NoConn]
    \/ g \in Users /\ Return(g)

\* wg.Done and the mu.Unlock that is deferred around it.
WgDone(g, c) ==
    /\ Unlock(c)
    /\ Add(shard[c], -1)
    /\ IF wg[shard[c]] > 0 THEN Return(g) ELSE Panic(g)

-----------------------------------------------------------------------------
(* Accept: the wrapped Accept and the assignment of a shard, then          *)
(* conn.init in two or more steps.                                         *)

\* Mutant: the remainder taken of a one-based count.
ShardOf_OffByOne(n) == (n % NumShards) + 1
ShardOf(n) == n % NumShards

AcceptConn(g, c) ==
    /\ At(g, "ready") /\ accepting /\ c \notin accepted
    /\ accepted' = accepted \cup {c}
    /\ open' = open \cup {c}
    /\ connCount' = connCount + 1
    /\ shard' = [shard EXCEPT ![c] = ShardOf(connCount')]
    /\ Enter(g, "add", c)
    /\ UNCHANGED <<mode, accepting, shardVars, live, busy, closed, disowned, cmu, walk,
                   ghostVars>>

InitAdd(g) ==
    /\ At(g, "add")
    /\ Add(shard[cn[g]], 1)
    /\ IF wg[shard[cn[g]]] >= -1 THEN Goto(g, "track") ELSE Panic(g)
    /\ UNCHANGED <<tVars, drain, all, idle, smu, connVars, walk, ghostVars>>

Track(g) ==
    LET c == cn[g] IN
    /\ At(g, "track") /\ ShardFree(shard[c])
    /\ \/ /\ shard[c] \in drain
          /\ Goto(g, "refuse")
          /\ UNCHANGED <<all, idle, live>>
       \/ /\ shard[c] \notin drain
          /\ all' = all \cup {c}
          /\ idle' = idle \cup {c}
          /\ live' = live \cup {c}
          /\ Return(g)
    /\ UNCHANGED <<tVars, drain, wg, smu, shard, accepted, busy, closed, disowned, cmu,
                   open, walk, ghostVars>>

\* T.Close closes the wrapped listener and nothing else.
CloseListener(g) ==
    /\ At(g, "ready") /\ accepting' = FALSE
    /\ UNCHANGED <<mode, connCount, shardVars, connVars, pc, cn, walk, ghostVars>>

-----------------------------------------------------------------------------
(* Closing a conn.  Close, closeIfIdle and markIdle share the tail         *)
(* shard.disown, Conn.Close, wg.Done and the release of conn.mu.           *)

StartClosing(g, c) ==
    /\ Lock(g, c)
    /\ closed' = closed \cup {c}
    /\ Enter(g, "unlist", c)

\* conn.Close, to its return or its first call.
CloseBody(g, c) ==
    /\ cmu[c] = NoProc
    /\ serving' = serving \ {c}
    /\ \/ /\ c \in disowned
          /\ open' = open \ {c}
          /\ Return(g) /\ UNCHANGED <<closed, cmu>>
       \/ /\ c \in closed \ disowned
          /\ Return(g) /\ UNCHANGED <<closed, cmu, open>>
       \/ /\ Managed(c)
          /\ StartClosing(g, c) /\ UNCHANGED open

Close(g, c) ==
    /\ At(g, "ready") /\ c \in live
    /\ CloseBody(g, c)
    /\ UNCHANGED <<tVars, shardVars, identity, busy, disowned, walk, drained>>

\* init closes the conn it could not track.
Refuse(g) ==
    /\ At(g, "refuse")
    /\ CloseBody(g, cn[g])
    /\ UNCHANGED <<tVars, shardVars, identity, busy, disowned, walk, drained>>

\* Mutant: only the idle set is cleaned.
Unlist_IdleOnly(g) ==
    /\ pc[g] \in {"unlist", "disown"} /\ ShardFree(shard[cn[g]])
    /\ idle' = idle \ {cn[g]}
    /\ Goto(g, IF At(g, "unlist") THEN "hangup" ELSE "release")
    /\ UNCHANGED <<tVars, drain, all, wg, smu, connVars, walk, ghostVars>>

\* shard.disown
Unlist(g) ==
    LET c == cn[g] IN
    /\ pc[g] \in {"unlist", "disown"} /\ ShardFree(shard[c])
    /\ all' = all \ {c}
    /\ idle' = idle \ {c}
    /\ Goto(g, IF At(g, "unlist") THEN "hangup" ELSE "release")
    /\ UNCHANGED <<tVars, drain, wg, smu, connVars, walk, ghostVars>>

Hangup(g) ==
    /\ At(g, "hangup")
    /\ open' = open \ {cn[g]}
    /\ Goto(g, "done")
    /\ UNCHANGED <<tVars, shardVars, identity, busy, closed, disowned, cmu, walk,
                   ghostVars>>

Done(g) ==
    LET c == cn[g] IN
    /\ At(g, "done")
    /\ WgDone(g, c)
    /\ UNCHANGED <<tVars, drain, all, idle, smu, identity, busy, closed, disowned,
                   open, walk, ghostVars>>

-----------------------------------------------------------------------------
(* Disown: after shard.disown the conn is the caller's alone.  Only a conn *)
(* already disowned is refused: one that was closed, by its user or by a   *)
(* DrainAll while its handler was about to hijack it, goes through.        *)

Disown(g, c) ==
    /\ At(g, "ready") /\ c \in live \ disowned
    /\ Lock(g, c)
    /\ serving' = serving \ {c}
    /\ Enter(g, "disown", c)
    /\ UNCHANGED <<tVars, shardVars, identity, busy, closed, disowned, open, walk,
                   drained>>

\* Mutant: a disowned conn stays counted.
Release_NoDone(g) ==
    /\ At(g, "release")
    /\ disowned' = disowned \cup {cn[g]}
    /\ Unlock(cn[g]) /\ Return(g)
    /\ UNCHANGED <<tVars, shardVars, identity, busy, closed, open, walk, ghostVars>>

Release(g) ==
    LET c == cn[g] IN
    /\ At(g, "release")
    /\ disowned' = disowned \cup {c}
    /\ WgDone(g, c)
    /\ UNCHANGED <<tVars, drain, all, idle, smu, identity, busy, closed, open, walk,
                   ghostVars>>

-----------------------------------------------------------------------------
(* Read: the I/O comes first and without the mutex; its result is judged   *)
(* afterwards, under it.                                                   *)

Read(g, c) ==
    /\ At(g, "ready") /\ c \in live
    /\ Enter(g, "reading", c)
    /\ UNCHANGED <<tVars, shardVars, connVars, walk, ghostVars>>

ReadIO(g) ==
    /\ At(g, "reading")
    /\ \/ cn[g] \in open /\ Goto(g, "gotData")
       \/ Goto(g, "gotError")
    /\ UNCHANGED <<tVars, shardVars, connVars, walk, ghostVars>>

\* The deferred function; a Read marks its conn in use even when it failed.
ReadDone(g) ==
    LET c == cn[g] IN
    /\ pc[g] \in {"gotData", "gotError"} /\ cmu[c] = NoProc
    /\ serving' = IF At(g, "gotData") /\ mode # "Manual" /\ Managed(c)
                  THEN serving \cup {c} ELSE serving
    /\ IF mode # "Manual" /\ Managed(c) /\ c \notin busy
       THEN busy' = busy \cup {c} /\ Lock(g, c) /\ Goto(g, "use")
       ELSE Return(g) /\ UNCHANGED <<busy, cmu>>
    /\ UNCHANGED <<tVars, shardVars, identity, closed, disowned, open, walk, drained>>

-----------------------------------------------------------------------------
(* MarkInUse, MarkIdle, and SetReadDeadline, which defers a markIdle.      *)

MarkInUse(g, c) ==
    /\ At(g, "ready") /\ c \in live /\ Managed(c) /\ cmu[c] = NoProc
    /\ serving' = serving \cup {c}
    /\ IF c \notin busy
       THEN busy' = busy \cup {c} /\ Lock(g, c) /\ Enter(g, "use", c)
       ELSE UNCHANGED <<busy, cmu, pc, cn>>
    /\ UNCHANGED <<tVars, shardVars, identity, closed, disowned, open, walk, drained>>

\* shard.markInUse
Use(g) ==
    LET c == cn[g] IN
    /\ At(g, "use") /\ ShardFree(shard[c])
    /\ idle' = idle \ {c}
    /\ Unlock(c) /\ Return(g)
    /\ UNCHANGED <<tVars, drain, all, wg, smu, identity, busy, closed, disowned, open,
                   walk, ghostVars>>

MarkIdleBody(g, c) ==
    /\ cmu[c] = NoProc
    /\ serving' = serving \ {c}
    /\ IF c \in busy
       THEN busy' = busy \ {c} /\ Lock(g, c) /\ Enter(g, "rest", c)
       ELSE Return(g) /\ UNCHANGED <<busy, cmu>>
    /\ UNCHANGED <<tVars, shardVars, identity, closed, disowned, open, walk, drained>>

MarkIdle(g, c) == At(g, "ready") /\ c \in live /\ MarkIdleBody(g, c)

SetReadDeadline(g, c) ==
    /\ At(g, "ready") /\ c \in live \ disowned /\ cmu[c] = NoProc
    /\ mode = "Deadline"
    /\ Enter(g, "deadline", c)
    /\ UNCHANGED <<tVars, shardVars, connVars, walk, ghostVars>>

DeadlineIdle(g) == At(g, "deadline") /\ MarkIdleBody(g, cn[g])

\* Mutant: markIdle does not ask whether its shard is draining.
Rest_IgnoresDrain(g) ==
    /\ At(g, "rest") /\ ShardFree(shard[cn[g]])
    /\ idle' = idle \cup {cn[g]}
    /\ Unlock(cn[g]) /\ Return(g)
    /\ UNCHANGED <<tVars, drain, all, wg, smu, identity, busy, closed, disowned, open,
                   walk, ghostVars>>

\* shard.markIdle, and what markIdle does with its answer.
Rest(g) ==
    LET c == cn[g] IN
    /\ At(g, "rest") /\ ShardFree(shard[c])
    /\ \/ /\ shard[c] \in drain /\ Managed(c)
          /\ closed' = closed \cup {c}
          /\ Goto(g, "unlist")
          /\ UNCHANGED <<idle, cmu>>
       \/ /\ shard[c] \in drain => ~Managed(c)
          /\ idle' = IF shard[c] \in drain THEN idle ELSE idle \cup {c}
          /\ Unlock(c) /\ Return(g)
          /\ UNCHANGED closed
    /\ UNCHANGED <<tVars, drain, all, wg, smu, identity, busy, disowned, open, walk,
                   ghostVars>>

-----------------------------------------------------------------------------
(* CloseIdle, Drain and DrainAll: closeConns on every shard in turn, then, *)
(* for a drain, wait on every shard in turn.                               *)

StartSweep(g, o) ==
    /\ At(g, "ready")
    /\ sweep' = [sweep EXCEPT ![g] = o]
    /\ Goto(g, "shard")
    /\ UNCHANGED <<tVars, shardVars, connVars, at, todo, ghostVars>>

\* Mutant: Drain marks the shard only for DrainAll.
StopsTracking_AllOnly(g) == sweep[g] = "DrainAll"
StopsTracking(g) == sweep[g] # "CloseIdle"

Snapshot(g) ==
    LET s == at[g] IN
    /\ At(g, "shard") /\ ShardFree(s)
    /\ smu' = [smu EXCEPT ![s] = g]
    /\ drain' = IF StopsTracking(g) THEN drain \cup {s} ELSE drain
    /\ todo' = [todo EXCEPT ![g] =
                   {c \in (IF sweep[g] = "DrainAll" THEN all ELSE idle) : shard[c] = s}]
    /\ Goto(g, "unlock")
    /\ UNCHANGED <<tVars, all, idle, wg, connVars, sweep, at, ghostVars>>

\* Mutant: the conns are closed with the shard lock held.
UnlockShard_KeepsLock(g) ==
    /\ At(g, "unlock") /\ Goto(g, "close")
    /\ UNCHANGED <<tVars, shardVars, connVars, walk, ghostVars>>

\* The shard lock is dropped before the first conn lock is taken.
UnlockShard(g) ==
    /\ At(g, "unlock")
    /\ smu' = [smu EXCEPT ![at[g]] = NoProc]
    /\ Goto(g, "close")
    /\ UNCHANGED <<tVars, drain, all, idle, wg, connVars, walk, ghostVars>>

\* Mutants: the snapshot is trusted for idleness, or for ownership.
MayShed_Busy(c) == Managed(c)
MayShed_Disowned(c) == c \notin busy \cup closed
MayShed(c) == c \notin busy /\ Managed(c)

CloseIfIdleBody(g, c) ==
    /\ cmu[c] = NoProc
    /\ IF MayShed(c)
       THEN StartClosing(g, c)
       ELSE Return(g) /\ UNCHANGED <<closed, cmu>>
    /\ UNCHANGED <<open, serving>>

CloseNext(g, c) ==
    /\ At(g, "close") /\ c \in todo[g]
    /\ todo' = [todo EXCEPT ![g] = @ \ {c}]
    /\ IF sweep[g] = "DrainAll" THEN CloseBody(g, c) ELSE CloseIfIdleBody(g, c)
    /\ UNCHANGED <<tVars, shardVars, identity, busy, disowned, sweep, at, drained>>

EndSweep(g) ==
    /\ Enter(g, "ready", NoConn)
    /\ sweep' = [sweep EXCEPT ![g] = "none"]
    /\ at' = [at EXCEPT ![g] = 0]

NextShard(g) ==
    /\ At(g, "close") /\ todo[g] = {}
    /\ \/ /\ at[g] + 1 < NumShards
          /\ at' = [at EXCEPT ![g] = @ + 1]
          /\ Goto(g, "shard") /\ UNCHANGED sweep
       \/ /\ at[g] + 1 = NumShards /\ sweep[g] # "CloseIdle"
          /\ at' = [at EXCEPT ![g] = 0]
          /\ Goto(g, "wait") /\ UNCHANGED sweep
       \/ /\ at[g] + 1 = NumShards /\ sweep[g] = "CloseIdle"
          /\ EndSweep(g)
    /\ UNCHANGED <<tVars, shardVars, connVars, todo, ghostVars>>

\* shard.wait
Wait(g) ==
    /\ At(g, "wait") /\ wg[at[g]] = 0
    /\ IF at[g] + 1 < NumShards
       THEN at' = [at EXCEPT ![g] = @ + 1] /\ UNCHANGED <<pc, cn, sweep, drained>>
       ELSE EndSweep(g) /\ drained' = TRUE
    /\ UNCHANGED <<tVars, shardVars, connVars, todo, serving>>

-----------------------------------------------------------------------------
\* The calls a caller may begin, and the steps a call takes once begun.
UserCall(g, c) ==
    \/ AcceptConn(g, c) \/ Close(g, c) \/ Disown(g, c) \/ Read(g, c)
    \/ MarkInUse(g, c) \/ MarkIdle(g, c) \/ SetReadDeadline(g, c)

Continue(g) ==
    \/ InitAdd(g) \/ Track(g) \/ Refuse(g) \/ Unlist(g) \/ Hangup(g) \/ Done(g)
    \/ Release(g) \/ ReadDone(g) \/ Use(g) \/ DeadlineIdle(g) \/ Rest(g)
    \/ Snapshot(g) \/ UnlockShard(g) \/ (\E c \in Conns : CloseNext(g, c))
    \/ NextShard(g) \/ Wait(g)

\* A panic that nobody recovered has ended the program.
Ended == (\A g \in Procs : At(g, "panicked")) /\ UNCHANGED vars

Next ==
    \/ \E g \in Users, c \in Conns : UserCall(g, c)
    \/ \E g \in Sweepers, o \in Sweeps : StartSweep(g, o)
    \/ \E g \in Sweepers : CloseListener(g)
    \/ \E g \in Procs : ReadIO(g) \/ Continue(g)
    \/ Ended

Spec == Init /\ [][Next]_vars

(* Go runs every goroutine that can run and its mutexes do not starve a    *)
(* waiter; nothing makes a peer send, so ReadIO is not fair.               *)
Fairness == \A g \in Procs : SF_vars(Continue(g))
LiveSpec == Spec /\ Fairness

-----------------------------------------------------------------------------
(* Properties.                                                             *)

\* The types of the state of the listener, its shards and its conns ...
StateOK ==
    /\ mode \in Modes /\ accepting \in BOOLEAN /\ connCount \in Nat
    /\ drain \subseteq Shards /\ all \subseteq Conns /\ idle \subseteq Conns
    /\ wg \in [Shards -> Int] /\ smu \in [Shards -> Procs \cup {NoProc}]
    /\ shard \in [Conns -> Shards] /\ accepted \subseteq Conns /\ live \subseteq Conns
    /\ busy \subseteq Conns /\ closed \subseteq Conns /\ disowned \subseteq Conns
    /\ cmu \in [Conns -> Procs \cup {NoProc}] /\ open \subseteq Conns
    /\ drained \in BOOLEAN /\ serving \subseteq Conns

\* ... and of the goroutines: one has a conn exactly while in a call on one.
ControlOK ==
    /\ pc \in [Procs -> PCs] /\ cn \in [Procs -> Conns \cup {NoConn}]
    /\ \A g \in Procs : cn[g] = NoConn <=> pc[g] \in Walking
    /\ sweep \in [Procs -> Sweeps \cup {"none"}] /\ at \in [Procs -> Shards]
    /\ todo \in [Procs -> SUBSET Conns]

TypeOK == StateOK /\ ControlOK

(* The two sets of a shard say what the conns say of themselves: once      *)
(* nobody is in the middle of changing it, a conn is in its shard's all    *)
(* exactly when it is neither closed nor disowned, and then in idle        *)
(* exactly when it is not busy.                                            *)
RegistryExact ==
    \A c \in live : cmu[c] = NoProc =>
        /\ c \in all <=> Managed(c)
        /\ Managed(c) => (c \in idle <=> c \notin busy)

\* c has been added to its shard's WaitGroup and not yet taken off it.
Closing(c) == \E g \in Procs : cn[g] = c /\ pc[g] \in {"unlist", "hangup", "done"}
Outstanding(c) ==
    /\ c \in accepted \ disowned
    /\ \A g \in Procs : cn[g] = c => pc[g] # "add"
    /\ c \notin closed \/ Closing(c)

\* The conns wg.Done ran for twice: disowned after they had been closed.
Twice == closed \cap disowned

(* The WaitGroup of a shard counts the conns assigned to it that have been *)
(* accepted and are not yet closed, refused or disowned, less one for each *)
(* conn that was disowned after it was closed (conn.disown does not ask):  *)
(* however Read, Close, Disown, MarkIdle and sweeps interleave, no other   *)
(* conn is missed or counted after it is gone.                             *)
OutstandingCounted ==
    (\A g \in Procs : ~At(g, "panicked")) =>
        \A s \in Shards :
            wg[s] = Cardinality({c \in Conns : shard[c] = s /\ Outstanding(c)})
                    - Cardinality({c \in Twice : shard[c] = s})

(* When a shard is draining, no idle conn of it is overlooked: it will be  *)
(* closed by a sweep that has it on its list.  This is the race between    *)
(* Drain's snapshot and conns that become idle or are accepted around it.  *)
NoIdleEscapes ==
    \A c \in live :
        /\ shard[c] \in drain /\ cmu[c] = NoProc
        /\ Managed(c) /\ c \notin busy
        => \E g \in Procs : c \in todo[g] /\ pc[g] \notin {"ready", "shard", "wait"}

\* No conn of s, shard of a conn, was disowned after it was closed.
Exact(s) == \A c \in Twice : shard[c] # s

(* Once Drain or DrainAll has returned, every conn Accept ever handed out, *)
(* or hands out later, is disowned or closed down to its net.Conn, except  *)
(* in a shard that has counted one conn's end twice.                       *)
DrainWaits ==
    drained => \A c \in live : Exact(shard[c]) => c \in disowned \/ c \notin open

(* What Drain's comment promises: it "waits for all outstanding            *)
(* connections to finish" (listener.go:117-118).  It does not when a       *)
(* handler hijacks a conn that a DrainAll has closed.                      *)
DrainWaitsForAll == drained => \A c \in live : c \in disowned \/ c \notin open

(* A request that was read keeps its connection: CloseIdle, Drain and a    *)
(* markIdle during a drain never close a conn between the Read that        *)
(* returned data (or the MarkInUse) and the end of the request.            *)
RequestsSurvive == serving \subseteq open \ closed

(* The code that closes a conn on the listener's own account (closeIfIdle, *)
(* markIdle, or a Close that found it managed) never runs on a conn that   *)
(* was disowned, even one that was disowned after it was put on a list.    *)
DisownedLeftAlone == \A c \in disowned : ~Closing(c)

(* CloseIdle and DrainAll return, whatever the users of the conns do: the  *)
(* order conn.mu before shard.mu, and dropping shard.mu before closing,    *)
(* leave nobody waiting for a lock for ever.  Only a conn whose end was    *)
(* counted twice can keep a DrainAll waiting, or end the program.          *)
SweepReturns ==
    \A g \in Sweepers :
        sweep[g] \in {"CloseIdle", "DrainAll"} ~>
            \/ sweep[g] = "none" \/ At(g, "panicked")
            \/ sweep[g] = "DrainAll" /\ Twice # {}

(* Drain returns if no conn stays busy for ever and none has its end       *)
(* counted twice: nothing else is needed, in particular nobody has to      *)
(* close a conn.                                                           *)
DrainReturns ==
    (\A c \in Conns : []<>(c \notin busy \/ ~Managed(c)))
        => \A g \in Sweepers : sweep[g] = "Drain" ~> sweep[g] = "none" \/ Twice # {}
=============================================================================
