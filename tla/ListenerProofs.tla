--------------------------- MODULE ListenerProofs ---------------------------
(***************************************************************************)
(* Proofs of the safety properties of Listener, for any number of conns,   *)
(* goroutines and shards.  The inductive invariant adds to the properties  *)
(* what each goroutine knows about its conn at each pc.                    *)
(***************************************************************************)
EXTENDS Listener, FiniteSetTheorems, TLAPS

\* A goroutine inside a critical section of conn.mu owns the mutex of its conn.
LockInv == \A g \in Procs : pc[g] \in Holding => cmu[cn[g]] = g

\* A goroutine is in the middle of a sweep exactly while it has one to run.
SweepInv ==
    \A g \in Procs :
        /\ pc[g] = "ready" => sweep[g] = "none"
        /\ pc[g] \in {"shard", "unlock", "close", "wait"} => sweep[g] # "none"
        /\ pc[g] = "wait" => sweep[g] # "CloseIdle"
        /\ sweep[g] = "none" => at[g] = 0
        /\ sweep[g] = "none" \/ pc[g] \in {"shard", "wait"} => todo[g] = {}

\* A conn that Accept has not returned is known to one goroutine only.
Ownership ==
    /\ live \subseteq accepted /\ closed \subseteq accepted
    /\ all \subseteq live /\ idle \subseteq live
    /\ busy \subseteq live /\ disowned \subseteq live /\ serving \subseteq live
    /\ \A g \in Procs :
          /\ todo[g] \subseteq live
          /\ cn[g] # NoConn => cn[g] \in accepted
          /\ pc[g] \in {"add", "track", "refuse"} => cn[g] \notin live \cup closed
          /\ pc[g] \in {"reading", "gotData", "gotError", "deadline",
                       "disown", "release", "use", "rest"} => cn[g] \in live
    /\ \A g, h \in Procs :
          cn[g] # NoConn /\ cn[g] = cn[h] /\ cn[g] \notin live => g = h

\* What the holder of conn.mu knows of its conn.
HolderKnows ==
    \A g \in Procs : LET c == cn[g] IN
        /\ pc[g] \in {"unlist", "hangup", "done"} => c \in closed \ disowned
        /\ pc[g] \in {"hangup", "done", "release"} => c \notin all \cup idle
        /\ pc[g] = "done" => c \notin open
        /\ pc[g] \in Holding \ {"use"} => c \notin serving
        /\ pc[g] \in {"disown", "release"} => c \notin disowned
        /\ pc[g] = "use" => c \in all \cap busy /\ Managed(c)
        /\ pc[g] = "rest" => c \notin busy /\ (c \in all <=> Managed(c))

\* A conn's net.Conn stays open until a goroutine that closed the conn hangs up.
OpenInv ==
    \A c \in accepted :
        /\ Managed(c) => c \in open
        /\ c \in (closed \cap open) \ disowned =>
              \E g \in Procs : \/ cn[g] = c /\ pc[g] \in {"unlist", "hangup"}
                             \/ pc[g] = "panicked"

ServingInv == serving \subseteq (busy \cap open) \ (closed \cup disowned)

\* Nobody has panicked.
Alive == \A g \in Procs : pc[g] # "panicked"

(* A panic ends every goroutine, and takes a conn whose end was counted    *)
(* twice.                                                                  *)
PanicInv ==
    /\ Twice = {} => Alive
    /\ \A g, h \in Procs : pc[g] = "panicked" => pc[h] = "panicked"

\* A drain has marked shard s.
Marked(g, s) ==
    pc[g] # "panicked" /\ (s < at[g] \/ (s = at[g] /\ pc[g] # "shard") \/ pc[g] = "wait")

(* A drain marks the shards in order, then waits for them in order; a conn *)
(* of a shard it has waited for, and whose counter was right, is no longer *)
(* outstanding.                                                            *)
MarksFirst ==
    \A g \in Procs : sweep[g] \in {"Drain", "DrainAll"} =>
        \A s \in Shards : Marked(g, s) => s \in drain
Waited ==
    \A g \in Procs : pc[g] = "wait" =>
        \A c \in live : shard[c] < at[g] /\ Exact(shard[c]) => ~Outstanding(c)
Finished ==
    drained =>
        /\ Shards \subseteq drain
        /\ \A c \in live : Exact(shard[c]) =>
               ~Outstanding(c) /\ (c \in disowned \/ c \notin open)

\* What the mutexes of shards and conns ensure ...
SafeInv ==
    /\ TypeOK /\ SweepInv /\ LockInv /\ Ownership /\ HolderKnows /\ OpenInv
    /\ ServingInv /\ RegistryExact /\ NoIdleEscapes /\ MarksFirst

\* ... and what the WaitGroups add.
CountInv == SafeInv /\ PanicInv /\ OutstandingCounted /\ Waited /\ Finished

-----------------------------------------------------------------------------
(* Types.                                                                  *)

\* A goroutine inside a call has a conn.
LEMMA InCall ==
    ASSUME ControlOK, NEW g \in Procs, pc[g] \notin Walking
    PROVE  cn[g] \in Conns
BY DEF ControlOK

\* conn.Close, called by whoever, keeps the types of what it changes.
LEMMA CloseBodyType ==
    ASSUME StateOK, NEW g \in Procs, NEW c \in Conns, CloseBody(g, c)
    PROVE  /\ closed' \subseteq Conns /\ open' \subseteq Conns /\ serving' \subseteq Conns
           /\ cmu' \in [Conns -> Procs \cup {NoProc}]
BY DEF CloseBody, StartClosing, Lock, StateOK

\* So does conn.markIdle, up to the call of shard.markIdle.
LEMMA MarkIdleBodyType ==
    ASSUME StateOK, NEW g \in Procs, NEW c \in Conns, MarkIdleBody(g, c)
    PROVE  StateOK'
<1> USE DEF MarkIdleBody, StateOK, tVars, shardVars, identity, walk
<1>1. busy' \subseteq Conns
  OBVIOUS
<1>2. cmu' \in [Conns -> Procs \cup {NoProc}]
  BY DEF Lock
<1>3. serving' \subseteq Conns
  OBVIOUS
<1>4. QED BY <1>1, <1>2, <1>3

\* Every step keeps the types of the listener, the shards and the conns.
LEMMA StateStep == TypeOK /\ [Next]_vars => StateOK'
<1> SUFFICES ASSUME StateOK, ControlOK, [Next]_vars
             PROVE  StateOK'
  BY DEF TypeOK
<1> USE ListenerAssumption DEF tVars, shardVars, connVars, identity, walk, ghostVars,
   At, Enter, Goto, Return, Lock, Unlock, Managed, Shards, StateOK
<1>1. ASSUME NEW g \in Procs, NEW c \in Conns, AcceptConn(g, c) PROVE StateOK'
  BY <1>1 DEF AcceptConn, ShardOf
<1>2. ASSUME NEW g \in Procs, InitAdd(g) PROVE StateOK'
  <2>1. cn[g] \in Conns
    BY <1>2, InCall DEF InitAdd, Add, Panic, Walking
  <2>2. QED BY <1>2, <2>1 DEF InitAdd, Add, Panic
<1>3. ASSUME NEW g \in Procs, Track(g) PROVE StateOK'
  <2>1. cn[g] \in Conns
    BY <1>3, InCall DEF Track, Walking
  <2>2. QED BY <1>3, <2>1 DEF Track
<1>4. ASSUME NEW g \in Procs, CloseListener(g) PROVE StateOK'
  BY <1>4 DEF CloseListener
<1>5. ASSUME NEW g \in Procs, NEW c \in Conns, Close(g, c) PROVE StateOK'
  BY <1>5, CloseBodyType DEF Close
<1>6. ASSUME NEW g \in Procs, Refuse(g) PROVE StateOK'
  <2>1. cn[g] \in Conns
    BY <1>6, InCall DEF Refuse, Walking
  <2>2. QED BY <1>6, <2>1, CloseBodyType DEF Refuse
<1>7. ASSUME NEW g \in Procs, Unlist(g) PROVE StateOK'
  <2>1. cn[g] \in Conns
    BY <1>7, InCall DEF Unlist, Walking
  <2>2. QED BY <1>7, <2>1 DEF Unlist
<1>8. ASSUME NEW g \in Procs, Hangup(g) PROVE StateOK'
  <2>1. cn[g] \in Conns
    BY <1>8, InCall DEF Hangup, Walking
  <2>2. QED BY <1>8, <2>1 DEF Hangup
<1>9. ASSUME NEW g \in Procs, Done(g) PROVE StateOK'
  <2>1. cn[g] \in Conns
    BY <1>9, InCall DEF Done, Walking
  <2>2. QED BY <1>9, <2>1 DEF Done, WgDone, Add, Panic
<1>10. ASSUME NEW g \in Procs, NEW c \in Conns, Disown(g, c) PROVE StateOK'
  BY <1>10 DEF Disown
<1>11. ASSUME NEW g \in Procs, Release(g) PROVE StateOK'
  <2>1. cn[g] \in Conns
    BY <1>11, InCall DEF Release, Walking
  <2>2. wg' \in [Shards -> Int]
    BY <1>11, <2>1 DEF Release, WgDone, Add, Panic
  <2>3. QED BY <1>11, <2>1, <2>2 DEF Release, WgDone, Add, Panic
<1>12. ASSUME NEW g \in Procs, NEW c \in Conns, Read(g, c) PROVE StateOK'
  BY <1>12 DEF Read
<1>13. ASSUME NEW g \in Procs, ReadIO(g) PROVE StateOK'
  <2>1. cn[g] \in Conns
    BY <1>13, InCall DEF ReadIO, Walking
  <2>2. QED BY <1>13, <2>1 DEF ReadIO
<1>14. ASSUME NEW g \in Procs, ReadDone(g) PROVE StateOK'
  <2>1. cn[g] \in Conns
    BY <1>14, InCall DEF ReadDone, Walking
  <2>2. serving' \subseteq Conns
    BY <1>14, <2>1 DEF ReadDone
  <2>3. busy' \subseteq Conns
    BY <1>14, <2>1 DEF ReadDone
  <2>4. cmu' \in [Conns -> Procs \cup {NoProc}]
    BY <1>14, <2>1 DEF ReadDone
  <2>5. QED BY <1>14, <2>2, <2>3, <2>4 DEF ReadDone
<1>15. ASSUME NEW g \in Procs, NEW c \in Conns, MarkInUse(g, c) PROVE StateOK'
  <2>1. CASE c \in busy
    BY <1>15, <2>1 DEF MarkInUse
  <2>2. CASE c \notin busy
    <3>1. cmu' \in [Conns -> Procs \cup {NoProc}]
      BY <1>15, <2>2 DEF MarkInUse
    <3>2. QED BY <1>15, <2>2, <3>1 DEF MarkInUse
  <2>3. QED BY <2>1, <2>2
<1>16. ASSUME NEW g \in Procs, Use(g) PROVE StateOK'
  <2>1. cn[g] \in Conns
    BY <1>16, InCall DEF Use, Walking
  <2>2. QED BY <1>16, <2>1 DEF Use
<1>17. ASSUME NEW g \in Procs, NEW c \in Conns, MarkIdle(g, c) PROVE StateOK'
  BY <1>17, MarkIdleBodyType DEF MarkIdle
<1>18. ASSUME NEW g \in Procs, NEW c \in Conns, SetReadDeadline(g, c) PROVE StateOK'
  BY <1>18 DEF SetReadDeadline
<1>19. ASSUME NEW g \in Procs, DeadlineIdle(g) PROVE StateOK'
  <2>1. cn[g] \in Conns
    BY <1>19, InCall DEF DeadlineIdle, Walking
  <2>2. QED BY <1>19, <2>1, MarkIdleBodyType DEF DeadlineIdle
<1>20. ASSUME NEW g \in Procs, Rest(g) PROVE StateOK'
  <2>1. cn[g] \in Conns
    BY <1>20, InCall DEF Rest, Walking
  <2>2. QED BY <1>20, <2>1 DEF Rest
<1>21. ASSUME NEW g \in Procs, NEW o \in Sweeps, StartSweep(g, o) PROVE StateOK'
  BY <1>21 DEF StartSweep
<1>22. ASSUME NEW g \in Procs, Snapshot(g) PROVE StateOK'
  <2>1. at[g] \in Shards
    BY DEF ControlOK
  <2>2. QED BY <1>22, <2>1 DEF Snapshot, StopsTracking
<1>23. ASSUME NEW g \in Procs, UnlockShard(g) PROVE StateOK'
  <2>1. at[g] \in Shards
    BY DEF ControlOK
  <2>2. QED BY <1>23, <2>1 DEF UnlockShard
<1>24. ASSUME NEW g \in Procs, NEW c \in Conns, CloseNext(g, c) PROVE StateOK'
  <2>1. CASE CloseBody(g, c)
    BY <1>24, <2>1, CloseBodyType DEF CloseNext
  <2>2. CASE CloseIfIdleBody(g, c)
    BY <1>24, <2>2 DEF CloseNext, CloseIfIdleBody, StartClosing
  <2>3. QED BY <1>24, <2>1, <2>2 DEF CloseNext
<1>25. ASSUME NEW g \in Procs, NextShard(g) PROVE StateOK'
  BY <1>25 DEF NextShard, EndSweep
<1>26. ASSUME NEW g \in Procs, Wait(g) PROVE StateOK'
  BY <1>26 DEF Wait, EndSweep
<1>27. CASE UNCHANGED vars
  BY <1>27 DEF vars
<1>28. QED
  BY <1>1, <1>2, <1>3, <1>4, <1>5, <1>6, <1>7, <1>8, <1>9, <1>10, <1>11, <1>12, <1>13,
     <1>14, <1>15, <1>16, <1>17, <1>18, <1>19, <1>20, <1>21, <1>22, <1>23, <1>24,
     <1>25, <1>26, <1>27 DEF Next, UserCall, Continue, Procs, Ended

\* Every step keeps the types of the goroutines, and a conn exactly inside a call.
LEMMA ControlStep == TypeOK /\ [Next]_vars => ControlOK'
<1> SUFFICES ASSUME StateOK, ControlOK, [Next]_vars
             PROVE  ControlOK'
  BY DEF TypeOK
<1> USE ListenerAssumption DEF tVars, shardVars, connVars, identity, walk, ghostVars,
   At, Enter, Goto, Return, Lock, Unlock, Managed, Shards, Sweeps, PCs, ControlOK,
   Walking, Holding
<1>1. ASSUME NEW g \in Procs, NEW c \in Conns, AcceptConn(g, c) PROVE ControlOK'
  BY <1>1 DEF AcceptConn, ShardOf
<1>2. ASSUME NEW g \in Procs, InitAdd(g) PROVE ControlOK'
  BY <1>2 DEF InitAdd, Add, Panic
<1>3. ASSUME NEW g \in Procs, Track(g) PROVE ControlOK'
  BY <1>3 DEF Track
<1>4. ASSUME NEW g \in Procs, CloseListener(g) PROVE ControlOK'
  BY <1>4 DEF CloseListener
<1>5. ASSUME NEW g \in Procs, NEW c \in Conns, Close(g, c) PROVE ControlOK'
  BY <1>5 DEF Close, CloseBody, StartClosing
<1>6. ASSUME NEW g \in Procs, Refuse(g) PROVE ControlOK'
  BY <1>6 DEF Refuse, CloseBody, StartClosing
<1>7. ASSUME NEW g \in Procs, Unlist(g) PROVE ControlOK'
  BY <1>7 DEF Unlist
<1>8. ASSUME NEW g \in Procs, Hangup(g) PROVE ControlOK'
  BY <1>8 DEF Hangup
<1>9. ASSUME NEW g \in Procs, Done(g) PROVE ControlOK'
  BY <1>9 DEF Done, WgDone, Add, Panic
<1>10. ASSUME NEW g \in Procs, NEW c \in Conns, Disown(g, c) PROVE ControlOK'
  BY <1>10 DEF Disown
<1>11. ASSUME NEW g \in Procs, Release(g) PROVE ControlOK'
  BY <1>11 DEF Release, WgDone, Add, Panic
<1>12. ASSUME NEW g \in Procs, NEW c \in Conns, Read(g, c) PROVE ControlOK'
  BY <1>12 DEF Read
<1>13. ASSUME NEW g \in Procs, ReadIO(g) PROVE ControlOK'
  BY <1>13 DEF ReadIO
<1>14. ASSUME NEW g \in Procs, ReadDone(g) PROVE ControlOK'
  BY <1>14 DEF ReadDone
<1>15. ASSUME NEW g \in Procs, NEW c \in Conns, MarkInUse(g, c) PROVE ControlOK'
  BY <1>15 DEF MarkInUse
<1>16. ASSUME NEW g \in Procs, Use(g) PROVE ControlOK'
  BY <1>16 DEF Use
<1>17. ASSUME NEW g \in Procs, NEW c \in Conns, MarkIdle(g, c) PROVE ControlOK'
  BY <1>17 DEF MarkIdle, MarkIdleBody
<1>18. ASSUME NEW g \in Procs, NEW c \in Conns, SetReadDeadline(g, c) PROVE ControlOK'
  BY <1>18 DEF SetReadDeadline
<1>19. ASSUME NEW g \in Procs, DeadlineIdle(g) PROVE ControlOK'
  BY <1>19 DEF DeadlineIdle, MarkIdleBody
<1>20. ASSUME NEW g \in Procs, Rest(g) PROVE ControlOK'
  BY <1>20 DEF Rest
<1>21. ASSUME NEW g \in Procs, NEW o \in Sweeps, StartSweep(g, o) PROVE ControlOK'
  BY <1>21 DEF StartSweep
<1>22. ASSUME NEW g \in Procs, Snapshot(g) PROVE ControlOK'
  <2>1. todo' \in [Procs -> SUBSET Conns]
    BY <1>22 DEF Snapshot, StateOK
  <2>2. QED BY <1>22, <2>1 DEF Snapshot
<1>23. ASSUME NEW g \in Procs, UnlockShard(g) PROVE ControlOK'
  BY <1>23 DEF UnlockShard
<1>24. ASSUME NEW g \in Procs, NEW c \in Conns, CloseNext(g, c) PROVE ControlOK'
  BY <1>24 DEF CloseNext, CloseBody, CloseIfIdleBody, StartClosing, MayShed
<1>25. ASSUME NEW g \in Procs, NextShard(g) PROVE ControlOK'
  BY <1>25 DEF NextShard, EndSweep
<1>26. ASSUME NEW g \in Procs, Wait(g) PROVE ControlOK'
  BY <1>26 DEF Wait, EndSweep
<1>27. CASE UNCHANGED vars
  BY <1>27 DEF vars
<1>28. QED
  BY <1>1, <1>2, <1>3, <1>4, <1>5, <1>6, <1>7, <1>8, <1>9, <1>10, <1>11, <1>12, <1>13,
     <1>14, <1>15, <1>16, <1>17, <1>18, <1>19, <1>20, <1>21, <1>22, <1>23, <1>24,
     <1>25, <1>26, <1>27 DEF Next, UserCall, Continue, Procs, Ended

-----------------------------------------------------------------------------
(* The parts of SafeInv, each from itself and the ones before it.          *)

\* A goroutine has a sweep exactly from its start to its return.
LEMMA SweepStep == TypeOK /\ SweepInv /\ [Next]_vars => SweepInv'
<1> SUFFICES ASSUME StateOK, ControlOK, SweepInv, [Next]_vars
             PROVE  SweepInv'
  BY DEF TypeOK
<1> USE ListenerAssumption DEF tVars, shardVars, connVars, identity, walk, ghostVars,
   At, Enter, Goto, Return, Lock, Unlock, Managed, SweepInv, Sweeps, StateOK,
   ControlOK, Holding, Walking
<1>1. ASSUME NEW g \in Procs, NEW c \in Conns, AcceptConn(g, c) PROVE SweepInv'
  BY <1>1 DEF AcceptConn, ShardOf
<1>2. ASSUME NEW g \in Procs, InitAdd(g) PROVE SweepInv'
  BY <1>2 DEF InitAdd, Add, Panic
<1>3. ASSUME NEW g \in Procs, Track(g) PROVE SweepInv'
  BY <1>3 DEF Track
<1>4. ASSUME NEW g \in Procs, CloseListener(g) PROVE SweepInv'
  BY <1>4 DEF CloseListener
<1>5. ASSUME NEW g \in Procs, NEW c \in Conns, Close(g, c) PROVE SweepInv'
  BY <1>5 DEF Close, CloseBody, StartClosing
<1>6. ASSUME NEW g \in Procs, Refuse(g) PROVE SweepInv'
  BY <1>6 DEF Refuse, CloseBody, StartClosing
<1>7. ASSUME NEW g \in Procs, Unlist(g) PROVE SweepInv'
  BY <1>7 DEF Unlist
<1>8. ASSUME NEW g \in Procs, Hangup(g) PROVE SweepInv'
  BY <1>8 DEF Hangup
<1>9. ASSUME NEW g \in Procs, Done(g) PROVE SweepInv'
  BY <1>9 DEF Done, WgDone, Add, Panic
<1>10. ASSUME NEW g \in Procs, NEW c \in Conns, Disown(g, c) PROVE SweepInv'
  BY <1>10 DEF Disown
<1>11. ASSUME NEW g \in Procs, Release(g) PROVE SweepInv'
  BY <1>11 DEF Release, WgDone, Add, Panic
<1>12. ASSUME NEW g \in Procs, NEW c \in Conns, Read(g, c) PROVE SweepInv'
  BY <1>12 DEF Read
<1>13. ASSUME NEW g \in Procs, ReadIO(g) PROVE SweepInv'
  BY <1>13 DEF ReadIO
<1>14. ASSUME NEW g \in Procs, ReadDone(g) PROVE SweepInv'
  BY <1>14 DEF ReadDone
<1>15. ASSUME NEW g \in Procs, NEW c \in Conns, MarkInUse(g, c) PROVE SweepInv'
  BY <1>15 DEF MarkInUse
<1>16. ASSUME NEW g \in Procs, Use(g) PROVE SweepInv'
  BY <1>16 DEF Use
<1>17. ASSUME NEW g \in Procs, NEW c \in Conns, MarkIdle(g, c) PROVE SweepInv'
  BY <1>17 DEF MarkIdle, MarkIdleBody
<1>18. ASSUME NEW g \in Procs, NEW c \in Conns, SetReadDeadline(g, c) PROVE SweepInv'
  BY <1>18 DEF SetReadDeadline
<1>19. ASSUME NEW g \in Procs, DeadlineIdle(g) PROVE SweepInv'
  BY <1>19 DEF DeadlineIdle, MarkIdleBody
<1>20. ASSUME NEW g \in Procs, Rest(g) PROVE SweepInv'
  BY <1>20 DEF Rest
<1>21. ASSUME NEW g \in Procs, NEW o \in Sweeps, StartSweep(g, o) PROVE SweepInv'
  BY <1>21 DEF StartSweep
<1>22. ASSUME NEW g \in Procs, Snapshot(g) PROVE SweepInv'
  BY <1>22 DEF Snapshot, StopsTracking
<1>23. ASSUME NEW g \in Procs, UnlockShard(g) PROVE SweepInv'
  BY <1>23 DEF UnlockShard
<1>24. ASSUME NEW g \in Procs, NEW c \in Conns, CloseNext(g, c) PROVE SweepInv'
  BY <1>24 DEF CloseNext, CloseBody, CloseIfIdleBody, StartClosing, MayShed
<1>25. ASSUME NEW g \in Procs, NextShard(g) PROVE SweepInv'
  BY <1>25 DEF NextShard, EndSweep
<1>26. ASSUME NEW g \in Procs, Wait(g) PROVE SweepInv'
  BY <1>26 DEF Wait, EndSweep
<1>27. CASE UNCHANGED vars
  BY <1>27 DEF vars
<1>28. QED
  BY <1>1, <1>2, <1>3, <1>4, <1>5, <1>6, <1>7, <1>8, <1>9, <1>10, <1>11, <1>12, <1>13,
     <1>14, <1>15, <1>16, <1>17, <1>18, <1>19, <1>20, <1>21, <1>22, <1>23, <1>24,
     <1>25, <1>26, <1>27 DEF Next, UserCall, Continue, Procs, Ended

\* conn.mu excludes: a section is entered with the mutex free and left freeing it.
LEMMA LockStep == TypeOK /\ LockInv /\ [Next]_vars => LockInv'
<1> SUFFICES ASSUME StateOK, ControlOK, LockInv, [Next]_vars
             PROVE  LockInv'
  BY DEF TypeOK
<1> USE ListenerAssumption DEF tVars, shardVars, connVars, identity, walk, ghostVars,
   At, Enter, Goto, Return, Lock, Unlock, Managed, LockInv, StateOK, ControlOK,
   Holding, Walking
<1>1. ASSUME NEW g \in Procs, NEW c \in Conns, AcceptConn(g, c) PROVE LockInv'
  BY <1>1 DEF AcceptConn, ShardOf
<1>2. ASSUME NEW g \in Procs, InitAdd(g) PROVE LockInv'
  BY <1>2 DEF InitAdd, Add, Panic
<1>3. ASSUME NEW g \in Procs, Track(g) PROVE LockInv'
  BY <1>3 DEF Track
<1>4. ASSUME NEW g \in Procs, CloseListener(g) PROVE LockInv'
  BY <1>4 DEF CloseListener
<1>5. ASSUME NEW g \in Procs, NEW c \in Conns, Close(g, c) PROVE LockInv'
  BY <1>5 DEF Close, CloseBody, StartClosing
<1>6. ASSUME NEW g \in Procs, Refuse(g) PROVE LockInv'
  BY <1>6 DEF Refuse, CloseBody, StartClosing
<1>7. ASSUME NEW g \in Procs, Unlist(g) PROVE LockInv'
  BY <1>7 DEF Unlist
<1>8. ASSUME NEW g \in Procs, Hangup(g) PROVE LockInv'
  BY <1>8 DEF Hangup
<1>9. ASSUME NEW g \in Procs, Done(g) PROVE LockInv'
  BY <1>9 DEF Done, WgDone, Add, Panic
<1>10. ASSUME NEW g \in Procs, NEW c \in Conns, Disown(g, c) PROVE LockInv'
  BY <1>10 DEF Disown
<1>11. ASSUME NEW g \in Procs, Release(g) PROVE LockInv'
  BY <1>11 DEF Release, WgDone, Add, Panic
<1>12. ASSUME NEW g \in Procs, NEW c \in Conns, Read(g, c) PROVE LockInv'
  BY <1>12 DEF Read
<1>13. ASSUME NEW g \in Procs, ReadIO(g) PROVE LockInv'
  BY <1>13 DEF ReadIO
<1>14. ASSUME NEW g \in Procs, ReadDone(g) PROVE LockInv'
  BY <1>14 DEF ReadDone
<1>15. ASSUME NEW g \in Procs, NEW c \in Conns, MarkInUse(g, c) PROVE LockInv'
  BY <1>15 DEF MarkInUse
<1>16. ASSUME NEW g \in Procs, Use(g) PROVE LockInv'
  BY <1>16 DEF Use
<1>17. ASSUME NEW g \in Procs, NEW c \in Conns, MarkIdle(g, c) PROVE LockInv'
  BY <1>17 DEF MarkIdle, MarkIdleBody
<1>18. ASSUME NEW g \in Procs, NEW c \in Conns, SetReadDeadline(g, c) PROVE LockInv'
  BY <1>18 DEF SetReadDeadline
<1>19. ASSUME NEW g \in Procs, DeadlineIdle(g) PROVE LockInv'
  BY <1>19 DEF DeadlineIdle, MarkIdleBody
<1>20. ASSUME NEW g \in Procs, Rest(g) PROVE LockInv'
  BY <1>20 DEF Rest
<1>21. ASSUME NEW g \in Procs, NEW o \in Sweeps, StartSweep(g, o) PROVE LockInv'
  BY <1>21 DEF StartSweep
<1>22. ASSUME NEW g \in Procs, Snapshot(g) PROVE LockInv'
  BY <1>22 DEF Snapshot, StopsTracking
<1>23. ASSUME NEW g \in Procs, UnlockShard(g) PROVE LockInv'
  BY <1>23 DEF UnlockShard
<1>24. ASSUME NEW g \in Procs, NEW c \in Conns, CloseNext(g, c) PROVE LockInv'
  BY <1>24 DEF CloseNext, CloseBody, CloseIfIdleBody, StartClosing, MayShed
<1>25. ASSUME NEW g \in Procs, NextShard(g) PROVE LockInv'
  BY <1>25 DEF NextShard, EndSweep
<1>26. ASSUME NEW g \in Procs, Wait(g) PROVE LockInv'
  BY <1>26 DEF Wait, EndSweep
<1>27. CASE UNCHANGED vars
  BY <1>27 DEF vars
<1>28. QED
  BY <1>1, <1>2, <1>3, <1>4, <1>5, <1>6, <1>7, <1>8, <1>9, <1>10, <1>11, <1>12, <1>13,
     <1>14, <1>15, <1>16, <1>17, <1>18, <1>19, <1>20, <1>21, <1>22, <1>23, <1>24,
     <1>25, <1>26, <1>27 DEF Next, UserCall, Continue, Procs, Ended

\* A conn reaches a second goroutine only by being returned from Accept.
LEMMA OwnershipStep == TypeOK /\ SweepInv /\ Ownership /\ [Next]_vars => Ownership'
<1> SUFFICES ASSUME StateOK, ControlOK, SweepInv, Ownership, [Next]_vars
             PROVE  Ownership'
  BY DEF TypeOK
<1> USE ListenerAssumption DEF tVars, shardVars, connVars, identity, walk, ghostVars,
   At, Enter, Goto, Return, Lock, Unlock, Managed, SweepInv, Ownership, StateOK,
   ControlOK, Holding, Walking
<1>1. ASSUME NEW g \in Procs, NEW c \in Conns, AcceptConn(g, c) PROVE Ownership'
  BY <1>1 DEF AcceptConn, ShardOf
<1>2. ASSUME NEW g \in Procs, InitAdd(g) PROVE Ownership'
  BY <1>2 DEF InitAdd, Add, Panic
<1>3. ASSUME NEW g \in Procs, Track(g) PROVE Ownership'
  BY <1>3 DEF Track
<1>4. ASSUME NEW g \in Procs, CloseListener(g) PROVE Ownership'
  BY <1>4 DEF CloseListener
<1>5. ASSUME NEW g \in Procs, NEW c \in Conns, Close(g, c) PROVE Ownership'
  BY <1>5 DEF Close, CloseBody, StartClosing
<1>6. ASSUME NEW g \in Procs, Refuse(g) PROVE Ownership'
  BY <1>6 DEF Refuse, CloseBody, StartClosing
<1>7. ASSUME NEW g \in Procs, Unlist(g) PROVE Ownership'
  BY <1>7 DEF Unlist
<1>8. ASSUME NEW g \in Procs, Hangup(g) PROVE Ownership'
  BY <1>8 DEF Hangup
<1>9. ASSUME NEW g \in Procs, Done(g) PROVE Ownership'
  BY <1>9 DEF Done, WgDone, Add, Panic
<1>10. ASSUME NEW g \in Procs, NEW c \in Conns, Disown(g, c) PROVE Ownership'
  BY <1>10 DEF Disown
<1>11. ASSUME NEW g \in Procs, Release(g) PROVE Ownership'
  <2>1. CASE wg[shard[cn[g]]] > 0
    BY <1>11, <2>1 DEF Release, WgDone, Add, Panic
  <2>2. CASE ~(wg[shard[cn[g]]] > 0)
    BY <1>11, <2>2 DEF Release, WgDone, Add, Panic
  <2>3. QED BY <2>1, <2>2
<1>12. ASSUME NEW g \in Procs, NEW c \in Conns, Read(g, c) PROVE Ownership'
  BY <1>12 DEF Read
<1>13. ASSUME NEW g \in Procs, ReadIO(g) PROVE Ownership'
  BY <1>13 DEF ReadIO
<1>14. ASSUME NEW g \in Procs, ReadDone(g) PROVE Ownership'
  <2>1. cn[g] \in live /\ busy' \subseteq live /\ serving' \subseteq live
    BY <1>14 DEF ReadDone
  <2>2. \/ pc' = [pc EXCEPT ![g] = "use"] /\ cn' = cn
        \/ pc' = [pc EXCEPT ![g] = pc'[g]] /\ pc'[g] \in Walking /\ cn' = [cn EXCEPT ![g] = NoConn]
    BY <1>14 DEF ReadDone
  <2>3. QED BY <1>14, <2>1, <2>2 DEF ReadDone
<1>15. ASSUME NEW g \in Procs, NEW c \in Conns, MarkInUse(g, c) PROVE Ownership'
  BY <1>15 DEF MarkInUse
<1>16. ASSUME NEW g \in Procs, Use(g) PROVE Ownership'
  BY <1>16 DEF Use
<1>17. ASSUME NEW g \in Procs, NEW c \in Conns, MarkIdle(g, c) PROVE Ownership'
  BY <1>17 DEF MarkIdle, MarkIdleBody
<1>18. ASSUME NEW g \in Procs, NEW c \in Conns, SetReadDeadline(g, c) PROVE Ownership'
  BY <1>18 DEF SetReadDeadline
<1>19. ASSUME NEW g \in Procs, DeadlineIdle(g) PROVE Ownership'
  BY <1>19 DEF DeadlineIdle, MarkIdleBody
<1>20. ASSUME NEW g \in Procs, Rest(g) PROVE Ownership'
  BY <1>20 DEF Rest
<1>21. ASSUME NEW g \in Procs, NEW o \in Sweeps, StartSweep(g, o) PROVE Ownership'
  BY <1>21 DEF StartSweep
<1>22. ASSUME NEW g \in Procs, Snapshot(g) PROVE Ownership'
  BY <1>22 DEF Snapshot, StopsTracking
<1>23. ASSUME NEW g \in Procs, UnlockShard(g) PROVE Ownership'
  BY <1>23 DEF UnlockShard
<1>24. ASSUME NEW g \in Procs, NEW c \in Conns, CloseNext(g, c) PROVE Ownership'
  BY <1>24 DEF CloseNext, CloseBody, CloseIfIdleBody, StartClosing, MayShed
<1>25. ASSUME NEW g \in Procs, NextShard(g) PROVE Ownership'
  BY <1>25 DEF NextShard, EndSweep
<1>26. ASSUME NEW g \in Procs, Wait(g) PROVE Ownership'
  BY <1>26 DEF Wait, EndSweep
<1>27. CASE UNCHANGED vars
  BY <1>27 DEF vars
<1>28. QED
  BY <1>1, <1>2, <1>3, <1>4, <1>5, <1>6, <1>7, <1>8, <1>9, <1>10, <1>11, <1>12, <1>13,
     <1>14, <1>15, <1>16, <1>17, <1>18, <1>19, <1>20, <1>21, <1>22, <1>23, <1>24,
     <1>25, <1>26, <1>27 DEF Next, UserCall, Continue, Procs, Ended

\* What a goroutine found out under conn.mu stays true until it unlocks.
LEMMA HolderStep ==
    TypeOK /\ LockInv /\ Ownership /\ HolderKnows /\ RegistryExact /\ ServingInv /\
       [Next]_vars => HolderKnows'
<1> SUFFICES ASSUME StateOK, ControlOK, LockInv, Ownership, HolderKnows,
                    RegistryExact, ServingInv, [Next]_vars
             PROVE  HolderKnows'
  BY DEF TypeOK
<1> USE ListenerAssumption DEF tVars, shardVars, connVars, identity, walk, ghostVars,
   At, Enter, Goto, Return, Lock, Unlock, Managed, LockInv, Ownership, HolderKnows,
   RegistryExact, ServingInv, StateOK, ControlOK, Holding, Walking
<1>1. ASSUME NEW g \in Procs, NEW c \in Conns, AcceptConn(g, c) PROVE HolderKnows'
  BY <1>1 DEF AcceptConn, ShardOf
<1>2. ASSUME NEW g \in Procs, InitAdd(g) PROVE HolderKnows'
  BY <1>2 DEF InitAdd, Add, Panic
<1>3. ASSUME NEW g \in Procs, Track(g) PROVE HolderKnows'
  BY <1>3 DEF Track
<1>4. ASSUME NEW g \in Procs, CloseListener(g) PROVE HolderKnows'
  BY <1>4 DEF CloseListener
<1>5. ASSUME NEW g \in Procs, NEW c \in Conns, Close(g, c) PROVE HolderKnows'
  BY <1>5 DEF Close, CloseBody, StartClosing
<1>6. ASSUME NEW g \in Procs, Refuse(g) PROVE HolderKnows'
  BY <1>6 DEF Refuse, CloseBody, StartClosing
<1>7. ASSUME NEW g \in Procs, Unlist(g) PROVE HolderKnows'
  BY <1>7 DEF Unlist
<1>8. ASSUME NEW g \in Procs, Hangup(g) PROVE HolderKnows'
  BY <1>8 DEF Hangup
<1>9. ASSUME NEW g \in Procs, Done(g) PROVE HolderKnows'
  BY <1>9 DEF Done, WgDone, Add, Panic
<1>10. ASSUME NEW g \in Procs, NEW c \in Conns, Disown(g, c) PROVE HolderKnows'
  BY <1>10 DEF Disown
<1>11. ASSUME NEW g \in Procs, Release(g) PROVE HolderKnows'
  BY <1>11 DEF Release, WgDone, Add, Panic
<1>12. ASSUME NEW g \in Procs, NEW c \in Conns, Read(g, c) PROVE HolderKnows'
  BY <1>12 DEF Read
<1>13. ASSUME NEW g \in Procs, ReadIO(g) PROVE HolderKnows'
  BY <1>13 DEF ReadIO
<1>14. ASSUME NEW g \in Procs, ReadDone(g) PROVE HolderKnows'
  BY <1>14 DEF ReadDone
<1>15. ASSUME NEW g \in Procs, NEW c \in Conns, MarkInUse(g, c) PROVE HolderKnows'
  BY <1>15 DEF MarkInUse
<1>16. ASSUME NEW g \in Procs, Use(g) PROVE HolderKnows'
  BY <1>16 DEF Use
<1>17. ASSUME NEW g \in Procs, NEW c \in Conns, MarkIdle(g, c) PROVE HolderKnows'
  BY <1>17 DEF MarkIdle, MarkIdleBody
<1>18. ASSUME NEW g \in Procs, NEW c \in Conns, SetReadDeadline(g, c) PROVE HolderKnows'
  BY <1>18 DEF SetReadDeadline
<1>19. ASSUME NEW g \in Procs, DeadlineIdle(g) PROVE HolderKnows'
  BY <1>19 DEF DeadlineIdle, MarkIdleBody
<1>20. ASSUME NEW g \in Procs, Rest(g) PROVE HolderKnows'
  BY <1>20 DEF Rest
<1>21. ASSUME NEW g \in Procs, NEW o \in Sweeps, StartSweep(g, o) PROVE HolderKnows'
  BY <1>21 DEF StartSweep
<1>22. ASSUME NEW g \in Procs, Snapshot(g) PROVE HolderKnows'
  BY <1>22 DEF Snapshot, StopsTracking
<1>23. ASSUME NEW g \in Procs, UnlockShard(g) PROVE HolderKnows'
  BY <1>23 DEF UnlockShard
<1>24. ASSUME NEW g \in Procs, NEW c \in Conns, CloseNext(g, c) PROVE HolderKnows'
  BY <1>24 DEF CloseNext, CloseBody, CloseIfIdleBody, StartClosing, MayShed
<1>25. ASSUME NEW g \in Procs, NextShard(g) PROVE HolderKnows'
  BY <1>25 DEF NextShard, EndSweep
<1>26. ASSUME NEW g \in Procs, Wait(g) PROVE HolderKnows'
  BY <1>26 DEF Wait, EndSweep
<1>27. CASE UNCHANGED vars
  BY <1>27 DEF vars
<1>28. QED
  BY <1>1, <1>2, <1>3, <1>4, <1>5, <1>6, <1>7, <1>8, <1>9, <1>10, <1>11, <1>12, <1>13,
     <1>14, <1>15, <1>16, <1>17, <1>18, <1>19, <1>20, <1>21, <1>22, <1>23, <1>24,
     <1>25, <1>26, <1>27 DEF Next, UserCall, Continue, Procs, Ended

\* A net.Conn is closed only after its conn was marked closed or disowned.
LEMMA OpenStep ==
    TypeOK /\ LockInv /\ Ownership /\ HolderKnows /\ OpenInv /\ [Next]_vars =>
       OpenInv'
<1> SUFFICES ASSUME StateOK, ControlOK, LockInv, Ownership, HolderKnows, OpenInv,
                    [Next]_vars
             PROVE  OpenInv'
  BY DEF TypeOK
<1> USE ListenerAssumption DEF tVars, shardVars, connVars, identity, walk, ghostVars,
   At, Enter, Goto, Return, Lock, Unlock, Managed, LockInv, Ownership, HolderKnows,
   OpenInv, StateOK, ControlOK, Holding, Walking
<1>1. ASSUME NEW g \in Procs, NEW c \in Conns, AcceptConn(g, c) PROVE OpenInv'
  BY <1>1 DEF AcceptConn, ShardOf
<1>2. ASSUME NEW g \in Procs, InitAdd(g) PROVE OpenInv'
  BY <1>2 DEF InitAdd, Add, Panic
<1>3. ASSUME NEW g \in Procs, Track(g) PROVE OpenInv'
  BY <1>3 DEF Track
<1>4. ASSUME NEW g \in Procs, CloseListener(g) PROVE OpenInv'
  BY <1>4 DEF CloseListener
<1>5. ASSUME NEW g \in Procs, NEW c \in Conns, Close(g, c) PROVE OpenInv'
  BY <1>5 DEF Close, CloseBody, StartClosing
<1>6. ASSUME NEW g \in Procs, Refuse(g) PROVE OpenInv'
  BY <1>6 DEF Refuse, CloseBody, StartClosing
<1>7. ASSUME NEW g \in Procs, Unlist(g) PROVE OpenInv'
  BY <1>7 DEF Unlist
<1>8. ASSUME NEW g \in Procs, Hangup(g) PROVE OpenInv'
  BY <1>8 DEF Hangup
<1>9. ASSUME NEW g \in Procs, Done(g) PROVE OpenInv'
  BY <1>9 DEF Done, WgDone, Add, Panic
<1>10. ASSUME NEW g \in Procs, NEW c \in Conns, Disown(g, c) PROVE OpenInv'
  BY <1>10 DEF Disown
<1>11. ASSUME NEW g \in Procs, Release(g) PROVE OpenInv'
  BY <1>11 DEF Release, WgDone, Add, Panic
<1>12. ASSUME NEW g \in Procs, NEW c \in Conns, Read(g, c) PROVE OpenInv'
  BY <1>12 DEF Read
<1>13. ASSUME NEW g \in Procs, ReadIO(g) PROVE OpenInv'
  BY <1>13 DEF ReadIO
<1>14. ASSUME NEW g \in Procs, ReadDone(g) PROVE OpenInv'
  BY <1>14 DEF ReadDone
<1>15. ASSUME NEW g \in Procs, NEW c \in Conns, MarkInUse(g, c) PROVE OpenInv'
  BY <1>15 DEF MarkInUse
<1>16. ASSUME NEW g \in Procs, Use(g) PROVE OpenInv'
  BY <1>16 DEF Use
<1>17. ASSUME NEW g \in Procs, NEW c \in Conns, MarkIdle(g, c) PROVE OpenInv'
  BY <1>17 DEF MarkIdle, MarkIdleBody
<1>18. ASSUME NEW g \in Procs, NEW c \in Conns, SetReadDeadline(g, c) PROVE OpenInv'
  BY <1>18 DEF SetReadDeadline
<1>19. ASSUME NEW g \in Procs, DeadlineIdle(g) PROVE OpenInv'
  BY <1>19 DEF DeadlineIdle, MarkIdleBody
<1>20. ASSUME NEW g \in Procs, Rest(g) PROVE OpenInv'
  BY <1>20 DEF Rest
<1>21. ASSUME NEW g \in Procs, NEW o \in Sweeps, StartSweep(g, o) PROVE OpenInv'
  BY <1>21 DEF StartSweep
<1>22. ASSUME NEW g \in Procs, Snapshot(g) PROVE OpenInv'
  BY <1>22 DEF Snapshot, StopsTracking
<1>23. ASSUME NEW g \in Procs, UnlockShard(g) PROVE OpenInv'
  BY <1>23 DEF UnlockShard
<1>24. ASSUME NEW g \in Procs, NEW c \in Conns, CloseNext(g, c) PROVE OpenInv'
  BY <1>24 DEF CloseNext, CloseBody, CloseIfIdleBody, StartClosing, MayShed
<1>25. ASSUME NEW g \in Procs, NextShard(g) PROVE OpenInv'
  BY <1>25 DEF NextShard, EndSweep
<1>26. ASSUME NEW g \in Procs, Wait(g) PROVE OpenInv'
  BY <1>26 DEF Wait, EndSweep
<1>27. CASE UNCHANGED vars
  BY <1>27 DEF vars
<1>28. QED
  BY <1>1, <1>2, <1>3, <1>4, <1>5, <1>6, <1>7, <1>8, <1>9, <1>10, <1>11, <1>12, <1>13,
     <1>14, <1>15, <1>16, <1>17, <1>18, <1>19, <1>20, <1>21, <1>22, <1>23, <1>24,
     <1>25, <1>26, <1>27 DEF Next, UserCall, Continue, Procs, Ended

\* No step closes, or stops counting as busy, a conn that is being served.
LEMMA ServingStep ==
    TypeOK /\ LockInv /\ Ownership /\ HolderKnows /\ OpenInv /\ ServingInv /\
       [Next]_vars => ServingInv'
<1> SUFFICES ASSUME StateOK, ControlOK, LockInv, Ownership, HolderKnows, OpenInv,
                    ServingInv, [Next]_vars
             PROVE  ServingInv'
  BY DEF TypeOK
<1> USE ListenerAssumption DEF tVars, shardVars, connVars, identity, walk, ghostVars,
   At, Enter, Goto, Return, Lock, Unlock, Managed, LockInv, Ownership, HolderKnows,
   OpenInv, ServingInv, StateOK, ControlOK, Holding, Walking
<1>1. ASSUME NEW g \in Procs, NEW c \in Conns, AcceptConn(g, c) PROVE ServingInv'
  BY <1>1 DEF AcceptConn, ShardOf
<1>2. ASSUME NEW g \in Procs, InitAdd(g) PROVE ServingInv'
  BY <1>2 DEF InitAdd, Add, Panic
<1>3. ASSUME NEW g \in Procs, Track(g) PROVE ServingInv'
  BY <1>3 DEF Track
<1>4. ASSUME NEW g \in Procs, CloseListener(g) PROVE ServingInv'
  BY <1>4 DEF CloseListener
<1>5. ASSUME NEW g \in Procs, NEW c \in Conns, Close(g, c) PROVE ServingInv'
  BY <1>5 DEF Close, CloseBody, StartClosing
<1>6. ASSUME NEW g \in Procs, Refuse(g) PROVE ServingInv'
  BY <1>6 DEF Refuse, CloseBody, StartClosing
<1>7. ASSUME NEW g \in Procs, Unlist(g) PROVE ServingInv'
  BY <1>7 DEF Unlist
<1>8. ASSUME NEW g \in Procs, Hangup(g) PROVE ServingInv'
  BY <1>8 DEF Hangup
<1>9. ASSUME NEW g \in Procs, Done(g) PROVE ServingInv'
  BY <1>9 DEF Done, WgDone, Add, Panic
<1>10. ASSUME NEW g \in Procs, NEW c \in Conns, Disown(g, c) PROVE ServingInv'
  BY <1>10 DEF Disown
<1>11. ASSUME NEW g \in Procs, Release(g) PROVE ServingInv'
  BY <1>11 DEF Release, WgDone, Add, Panic
<1>12. ASSUME NEW g \in Procs, NEW c \in Conns, Read(g, c) PROVE ServingInv'
  BY <1>12 DEF Read
<1>13. ASSUME NEW g \in Procs, ReadIO(g) PROVE ServingInv'
  BY <1>13 DEF ReadIO
<1>14. ASSUME NEW g \in Procs, ReadDone(g) PROVE ServingInv'
  BY <1>14 DEF ReadDone
<1>15. ASSUME NEW g \in Procs, NEW c \in Conns, MarkInUse(g, c) PROVE ServingInv'
  BY <1>15 DEF MarkInUse
<1>16. ASSUME NEW g \in Procs, Use(g) PROVE ServingInv'
  BY <1>16 DEF Use
<1>17. ASSUME NEW g \in Procs, NEW c \in Conns, MarkIdle(g, c) PROVE ServingInv'
  BY <1>17 DEF MarkIdle, MarkIdleBody
<1>18. ASSUME NEW g \in Procs, NEW c \in Conns, SetReadDeadline(g, c) PROVE ServingInv'
  BY <1>18 DEF SetReadDeadline
<1>19. ASSUME NEW g \in Procs, DeadlineIdle(g) PROVE ServingInv'
  BY <1>19 DEF DeadlineIdle, MarkIdleBody
<1>20. ASSUME NEW g \in Procs, Rest(g) PROVE ServingInv'
  BY <1>20 DEF Rest
<1>21. ASSUME NEW g \in Procs, NEW o \in Sweeps, StartSweep(g, o) PROVE ServingInv'
  BY <1>21 DEF StartSweep
<1>22. ASSUME NEW g \in Procs, Snapshot(g) PROVE ServingInv'
  BY <1>22 DEF Snapshot, StopsTracking
<1>23. ASSUME NEW g \in Procs, UnlockShard(g) PROVE ServingInv'
  BY <1>23 DEF UnlockShard
<1>24. ASSUME NEW g \in Procs, NEW c \in Conns, CloseNext(g, c) PROVE ServingInv'
  BY <1>24 DEF CloseNext, CloseBody, CloseIfIdleBody, StartClosing, MayShed
<1>25. ASSUME NEW g \in Procs, NextShard(g) PROVE ServingInv'
  BY <1>25 DEF NextShard, EndSweep
<1>26. ASSUME NEW g \in Procs, Wait(g) PROVE ServingInv'
  BY <1>26 DEF Wait, EndSweep
<1>27. CASE UNCHANGED vars
  BY <1>27 DEF vars
<1>28. QED
  BY <1>1, <1>2, <1>3, <1>4, <1>5, <1>6, <1>7, <1>8, <1>9, <1>10, <1>11, <1>12, <1>13,
     <1>14, <1>15, <1>16, <1>17, <1>18, <1>19, <1>20, <1>21, <1>22, <1>23, <1>24,
     <1>25, <1>26, <1>27 DEF Next, UserCall, Continue, Procs, Ended

\* Each section of conn.mu leaves the two sets in agreement with the conn.
LEMMA RegistryStep ==
    TypeOK /\ LockInv /\ Ownership /\ HolderKnows /\ RegistryExact /\ [Next]_vars =>
       RegistryExact'
<1> SUFFICES ASSUME StateOK, ControlOK, LockInv, Ownership, HolderKnows,
                    RegistryExact, [Next]_vars
             PROVE  RegistryExact'
  BY DEF TypeOK
<1> USE ListenerAssumption DEF tVars, shardVars, connVars, identity, walk, ghostVars,
   At, Enter, Goto, Return, Lock, Unlock, Managed, LockInv, Ownership, HolderKnows,
   RegistryExact, StateOK, ControlOK, Holding, Walking
<1>1. ASSUME NEW g \in Procs, NEW c \in Conns, AcceptConn(g, c) PROVE RegistryExact'
  BY <1>1 DEF AcceptConn, ShardOf
<1>2. ASSUME NEW g \in Procs, InitAdd(g) PROVE RegistryExact'
  BY <1>2 DEF InitAdd, Add, Panic
<1>3. ASSUME NEW g \in Procs, Track(g) PROVE RegistryExact'
  BY <1>3 DEF Track
<1>4. ASSUME NEW g \in Procs, CloseListener(g) PROVE RegistryExact'
  BY <1>4 DEF CloseListener
<1>5. ASSUME NEW g \in Procs, NEW c \in Conns, Close(g, c) PROVE RegistryExact'
  BY <1>5 DEF Close, CloseBody, StartClosing
<1>6. ASSUME NEW g \in Procs, Refuse(g) PROVE RegistryExact'
  BY <1>6 DEF Refuse, CloseBody, StartClosing
<1>7. ASSUME NEW g \in Procs, Unlist(g) PROVE RegistryExact'
  BY <1>7 DEF Unlist
<1>8. ASSUME NEW g \in Procs, Hangup(g) PROVE RegistryExact'
  BY <1>8 DEF Hangup
<1>9. ASSUME NEW g \in Procs, Done(g) PROVE RegistryExact'
  BY <1>9 DEF Done, WgDone, Add, Panic
<1>10. ASSUME NEW g \in Procs, NEW c \in Conns, Disown(g, c) PROVE RegistryExact'
  BY <1>10 DEF Disown
<1>11. ASSUME NEW g \in Procs, Release(g) PROVE RegistryExact'
  BY <1>11 DEF Release, WgDone, Add, Panic
<1>12. ASSUME NEW g \in Procs, NEW c \in Conns, Read(g, c) PROVE RegistryExact'
  BY <1>12 DEF Read
<1>13. ASSUME NEW g \in Procs, ReadIO(g) PROVE RegistryExact'
  BY <1>13 DEF ReadIO
<1>14. ASSUME NEW g \in Procs, ReadDone(g) PROVE RegistryExact'
  BY <1>14 DEF ReadDone
<1>15. ASSUME NEW g \in Procs, NEW c \in Conns, MarkInUse(g, c) PROVE RegistryExact'
  BY <1>15 DEF MarkInUse
<1>16. ASSUME NEW g \in Procs, Use(g) PROVE RegistryExact'
  BY <1>16 DEF Use
<1>17. ASSUME NEW g \in Procs, NEW c \in Conns, MarkIdle(g, c) PROVE RegistryExact'
  BY <1>17 DEF MarkIdle, MarkIdleBody
<1>18. ASSUME NEW g \in Procs, NEW c \in Conns, SetReadDeadline(g, c)
      PROVE  RegistryExact'
  BY <1>18 DEF SetReadDeadline
<1>19. ASSUME NEW g \in Procs, DeadlineIdle(g) PROVE RegistryExact'
  BY <1>19 DEF DeadlineIdle, MarkIdleBody
<1>20. ASSUME NEW g \in Procs, Rest(g) PROVE RegistryExact'
  BY <1>20 DEF Rest
<1>21. ASSUME NEW g \in Procs, NEW o \in Sweeps, StartSweep(g, o) PROVE RegistryExact'
  BY <1>21 DEF StartSweep
<1>22. ASSUME NEW g \in Procs, Snapshot(g) PROVE RegistryExact'
  BY <1>22 DEF Snapshot, StopsTracking
<1>23. ASSUME NEW g \in Procs, UnlockShard(g) PROVE RegistryExact'
  BY <1>23 DEF UnlockShard
<1>24. ASSUME NEW g \in Procs, NEW c \in Conns, CloseNext(g, c) PROVE RegistryExact'
  BY <1>24 DEF CloseNext, CloseBody, CloseIfIdleBody, StartClosing, MayShed
<1>25. ASSUME NEW g \in Procs, NextShard(g) PROVE RegistryExact'
  BY <1>25 DEF NextShard, EndSweep
<1>26. ASSUME NEW g \in Procs, Wait(g) PROVE RegistryExact'
  BY <1>26 DEF Wait, EndSweep
<1>27. CASE UNCHANGED vars
  BY <1>27 DEF vars
<1>28. QED
  BY <1>1, <1>2, <1>3, <1>4, <1>5, <1>6, <1>7, <1>8, <1>9, <1>10, <1>11, <1>12, <1>13,
     <1>14, <1>15, <1>16, <1>17, <1>18, <1>19, <1>20, <1>21, <1>22, <1>23, <1>24,
     <1>25, <1>26, <1>27 DEF Next, UserCall, Continue, Procs, Ended

\* No step of any goroutine lets an idle conn of a draining shard slip by.
LEMMA NoIdleEscapesStep ==
    TypeOK /\ SweepInv /\ LockInv /\ Ownership /\ HolderKnows /\ RegistryExact /\
       NoIdleEscapes /\ [Next]_vars => NoIdleEscapes'
<1> SUFFICES ASSUME StateOK, ControlOK, SweepInv, LockInv, Ownership, HolderKnows,
                    RegistryExact, NoIdleEscapes, [Next]_vars
             PROVE  NoIdleEscapes'
  BY DEF TypeOK
<1> USE ListenerAssumption DEF tVars, shardVars, connVars, identity, walk, ghostVars,
   At, Enter, Goto, Return, Lock, Unlock, Managed, SweepInv, LockInv, Ownership,
   HolderKnows, RegistryExact, NoIdleEscapes, StateOK, ControlOK, Holding, Walking
<1>1. ASSUME NEW g \in Procs, NEW c \in Conns, AcceptConn(g, c) PROVE NoIdleEscapes'
  BY <1>1 DEF AcceptConn, ShardOf
<1>2. ASSUME NEW g \in Procs, InitAdd(g) PROVE NoIdleEscapes'
  BY <1>2 DEF InitAdd, Add, Panic
<1>3. ASSUME NEW g \in Procs, Track(g) PROVE NoIdleEscapes'
  BY <1>3 DEF Track
<1>4. ASSUME NEW g \in Procs, CloseListener(g) PROVE NoIdleEscapes'
  BY <1>4 DEF CloseListener
<1>5. ASSUME NEW g \in Procs, NEW c \in Conns, Close(g, c) PROVE NoIdleEscapes'
  BY <1>5 DEF Close, CloseBody, StartClosing
<1>6. ASSUME NEW g \in Procs, Refuse(g) PROVE NoIdleEscapes'
  BY <1>6 DEF Refuse, CloseBody, StartClosing
<1>7. ASSUME NEW g \in Procs, Unlist(g) PROVE NoIdleEscapes'
  BY <1>7 DEF Unlist
<1>8. ASSUME NEW g \in Procs, Hangup(g) PROVE NoIdleEscapes'
  BY <1>8 DEF Hangup
<1>9. ASSUME NEW g \in Procs, Done(g) PROVE NoIdleEscapes'
  BY <1>9 DEF Done, WgDone, Add, Panic
<1>10. ASSUME NEW g \in Procs, NEW c \in Conns, Disown(g, c) PROVE NoIdleEscapes'
  BY <1>10 DEF Disown
<1>11. ASSUME NEW g \in Procs, Release(g) PROVE NoIdleEscapes'
  BY <1>11 DEF Release, WgDone, Add, Panic
<1>12. ASSUME NEW g \in Procs, NEW c \in Conns, Read(g, c) PROVE NoIdleEscapes'
  BY <1>12 DEF Read
<1>13. ASSUME NEW g \in Procs, ReadIO(g) PROVE NoIdleEscapes'
  BY <1>13 DEF ReadIO
<1>14. ASSUME NEW g \in Procs, ReadDone(g) PROVE NoIdleEscapes'
  BY <1>14 DEF ReadDone
<1>15. ASSUME NEW g \in Procs, NEW c \in Conns, MarkInUse(g, c) PROVE NoIdleEscapes'
  BY <1>15 DEF MarkInUse
<1>16. ASSUME NEW g \in Procs, Use(g) PROVE NoIdleEscapes'
  BY <1>16 DEF Use
<1>17. ASSUME NEW g \in Procs, NEW c \in Conns, MarkIdle(g, c) PROVE NoIdleEscapes'
  BY <1>17 DEF MarkIdle, MarkIdleBody
<1>18. ASSUME NEW g \in Procs, NEW c \in Conns, SetReadDeadline(g, c)
      PROVE  NoIdleEscapes'
  BY <1>18 DEF SetReadDeadline
<1>19. ASSUME NEW g \in Procs, DeadlineIdle(g) PROVE NoIdleEscapes'
  BY <1>19 DEF DeadlineIdle, MarkIdleBody
<1>20. ASSUME NEW g \in Procs, Rest(g) PROVE NoIdleEscapes'
  BY <1>20 DEF Rest
<1>21. ASSUME NEW g \in Procs, NEW o \in Sweeps, StartSweep(g, o) PROVE NoIdleEscapes'
  BY <1>21 DEF StartSweep
<1>22. ASSUME NEW g \in Procs, Snapshot(g) PROVE NoIdleEscapes'
  BY <1>22 DEF Snapshot, StopsTracking
<1>23. ASSUME NEW g \in Procs, UnlockShard(g) PROVE NoIdleEscapes'
  BY <1>23 DEF UnlockShard
<1>24. ASSUME NEW g \in Procs, NEW c \in Conns, CloseNext(g, c) PROVE NoIdleEscapes'
  <2> SUFFICES ASSUME NEW d \in live, shard[d] \in drain, cmu'[d] = NoProc,
                      d \notin closed' \cup disowned, d \notin busy
               PROVE  \E h \in Procs : d \in todo'[h] /\ pc'[h] \notin {"ready", "shard", "wait"}
    BY <1>24 DEF CloseNext
  <2>1. /\ pc' = [pc EXCEPT ![g] = "unlist"] \/ pc' = [pc EXCEPT ![g] = "close"]
        /\ todo' = [todo EXCEPT ![g] = @ \ {c}]
    BY <1>24 DEF CloseNext, CloseBody, CloseIfIdleBody, StartClosing
  <2>2. d # c /\ cmu[d] = NoProc /\ Managed(d)
    BY <1>24 DEF CloseNext, CloseBody, CloseIfIdleBody, StartClosing, MayShed
  <2>3. PICK h \in Procs : d \in todo[h] /\ pc[h] \notin {"ready", "shard", "wait"}
    BY <2>2
  <2>4. d \in todo'[h] /\ pc'[h] \notin {"ready", "shard", "wait"}
    BY <2>1, <2>2, <2>3
  <2>5. QED BY <2>4
<1>25. ASSUME NEW g \in Procs, NextShard(g) PROVE NoIdleEscapes'
  BY <1>25 DEF NextShard, EndSweep
<1>26. ASSUME NEW g \in Procs, Wait(g) PROVE NoIdleEscapes'
  BY <1>26 DEF Wait, EndSweep
<1>27. CASE UNCHANGED vars
  BY <1>27 DEF vars
<1>28. QED
  BY <1>1, <1>2, <1>3, <1>4, <1>5, <1>6, <1>7, <1>8, <1>9, <1>10, <1>11, <1>12, <1>13,
     <1>14, <1>15, <1>16, <1>17, <1>18, <1>19, <1>20, <1>21, <1>22, <1>23, <1>24,
     <1>25, <1>26, <1>27 DEF Next, UserCall, Continue, Procs, Ended

\* A drain does not go past a shard it has not marked.
LEMMA MarksFirstStep == TypeOK /\ SweepInv /\ MarksFirst /\ [Next]_vars => MarksFirst'
<1> SUFFICES ASSUME StateOK, ControlOK, SweepInv, MarksFirst, [Next]_vars
             PROVE  MarksFirst'
  BY DEF TypeOK
<1> USE ListenerAssumption DEF tVars, shardVars, connVars, identity, walk, ghostVars,
   At, Enter, Goto, Return, Lock, Unlock, Managed, SweepInv, MarksFirst, Marked,
   Shards, ControlOK
<1>1. ASSUME NEW g \in Procs, NEW c \in Conns, AcceptConn(g, c) PROVE MarksFirst'
  BY <1>1 DEF AcceptConn, ShardOf
<1>2. ASSUME NEW g \in Procs, InitAdd(g) PROVE MarksFirst'
  BY <1>2 DEF InitAdd, Add, Panic
<1>3. ASSUME NEW g \in Procs, Track(g) PROVE MarksFirst'
  BY <1>3 DEF Track
<1>4. ASSUME NEW g \in Procs, CloseListener(g) PROVE MarksFirst'
  BY <1>4 DEF CloseListener
<1>5. ASSUME NEW g \in Procs, NEW c \in Conns, Close(g, c) PROVE MarksFirst'
  BY <1>5 DEF Close, CloseBody, StartClosing
<1>6. ASSUME NEW g \in Procs, Refuse(g) PROVE MarksFirst'
  BY <1>6 DEF Refuse, CloseBody, StartClosing
<1>7. ASSUME NEW g \in Procs, Unlist(g) PROVE MarksFirst'
  BY <1>7 DEF Unlist
<1>8. ASSUME NEW g \in Procs, Hangup(g) PROVE MarksFirst'
  BY <1>8 DEF Hangup
<1>9. ASSUME NEW g \in Procs, Done(g) PROVE MarksFirst'
  BY <1>9 DEF Done, WgDone, Add, Panic
<1>10. ASSUME NEW g \in Procs, NEW c \in Conns, Disown(g, c) PROVE MarksFirst'
  BY <1>10 DEF Disown
<1>11. ASSUME NEW g \in Procs, Release(g) PROVE MarksFirst'
  BY <1>11 DEF Release, WgDone, Add, Panic
<1>12. ASSUME NEW g \in Procs, NEW c \in Conns, Read(g, c) PROVE MarksFirst'
  BY <1>12 DEF Read
<1>13. ASSUME NEW g \in Procs, ReadIO(g) PROVE MarksFirst'
  BY <1>13 DEF ReadIO
<1>14. ASSUME NEW g \in Procs, ReadDone(g) PROVE MarksFirst'
  BY <1>14 DEF ReadDone
<1>15. ASSUME NEW g \in Procs, NEW c \in Conns, MarkInUse(g, c) PROVE MarksFirst'
  BY <1>15 DEF MarkInUse
<1>16. ASSUME NEW g \in Procs, Use(g) PROVE MarksFirst'
  BY <1>16 DEF Use
<1>17. ASSUME NEW g \in Procs, NEW c \in Conns, MarkIdle(g, c) PROVE MarksFirst'
  BY <1>17 DEF MarkIdle, MarkIdleBody
<1>18. ASSUME NEW g \in Procs, NEW c \in Conns, SetReadDeadline(g, c) PROVE MarksFirst'
  BY <1>18 DEF SetReadDeadline
<1>19. ASSUME NEW g \in Procs, DeadlineIdle(g) PROVE MarksFirst'
  BY <1>19 DEF DeadlineIdle, MarkIdleBody
<1>20. ASSUME NEW g \in Procs, Rest(g) PROVE MarksFirst'
  BY <1>20 DEF Rest
<1>21. ASSUME NEW g \in Procs, NEW o \in Sweeps, StartSweep(g, o) PROVE MarksFirst'
  BY <1>21 DEF StartSweep
<1>22. ASSUME NEW g \in Procs, Snapshot(g) PROVE MarksFirst'
  BY <1>22 DEF Snapshot, StopsTracking
<1>23. ASSUME NEW g \in Procs, UnlockShard(g) PROVE MarksFirst'
  BY <1>23 DEF UnlockShard
<1>24. ASSUME NEW g \in Procs, NEW c \in Conns, CloseNext(g, c) PROVE MarksFirst'
  BY <1>24 DEF CloseNext, CloseBody, CloseIfIdleBody, StartClosing, MayShed
<1>25. ASSUME NEW g \in Procs, NextShard(g) PROVE MarksFirst'
  BY <1>25 DEF NextShard, EndSweep
<1>26. ASSUME NEW g \in Procs, Wait(g) PROVE MarksFirst'
  BY <1>26 DEF Wait, EndSweep
<1>27. CASE UNCHANGED vars
  BY <1>27 DEF vars
<1>28. QED
  BY <1>1, <1>2, <1>3, <1>4, <1>5, <1>6, <1>7, <1>8, <1>9, <1>10, <1>11, <1>12, <1>13,
     <1>14, <1>15, <1>16, <1>17, <1>18, <1>19, <1>20, <1>21, <1>22, <1>23, <1>24,
     <1>25, <1>26, <1>27 DEF Next, UserCall, Continue, Procs, Ended

-----------------------------------------------------------------------------
(* The theorems that need no assumption on the callers.                    *)

\* The initial states satisfy the invariant.
LEMMA InitSafe == Init => SafeInv
<1> SUFFICES ASSUME Init PROVE SafeInv
  OBVIOUS
<1> USE ListenerAssumption DEF Init, Walking
<1>1. 0 \in Shards
  BY DEF Shards
<1>2. StateOK
  <2>1. wg \in [Shards -> Int] /\ connCount \in Nat
    OBVIOUS
  <2>2. shard \in [Conns -> Shards]
    BY <1>1
  <2>3. QED BY <2>1, <2>2 DEF StateOK
<1>3. ControlOK
  BY <1>1 DEF ControlOK, PCs
<1>4. SweepInv /\ LockInv /\ Ownership /\ HolderKnows
  BY DEF SweepInv, LockInv, Holding, Ownership, HolderKnows
<1>5. OpenInv /\ ServingInv /\ RegistryExact /\ NoIdleEscapes /\ MarksFirst
  BY DEF OpenInv, ServingInv, RegistryExact, NoIdleEscapes, MarksFirst
<1>6. QED BY <1>2, <1>3, <1>4, <1>5 DEF SafeInv, TypeOK

(* The invariant of the listener: whatever the callers do, every state the *)
(* code reaches satisfies SafeInv.                                         *)
THEOREM SafetyInvariant == Spec => []SafeInv
<1>1. Init => SafeInv
  BY InitSafe
<1>2. SafeInv /\ [Next]_vars => SafeInv'
  BY StateStep, ControlStep, SweepStep, LockStep, OwnershipStep, HolderStep, OpenStep,
     ServingStep, RegistryStep, NoIdleEscapesStep, MarksFirstStep DEF SafeInv, TypeOK
<1>3. QED BY <1>1, <1>2, PTL DEF Spec

\* The state keeps its types; in particular every conn has a shard that exists.
THEOREM TypeCorrect == Spec => []TypeOK
BY SafetyInvariant, PTL DEF SafeInv

(* A shard's all and idle sets agree with the flags of its conns whenever  *)
(* nobody is changing them.                                                *)
THEOREM RegistryCorrect == Spec => []RegistryExact
BY SafetyInvariant, PTL DEF SafeInv

(* No idle conn of a draining shard is overlooked, however Accept, Read    *)
(* and MarkIdle interleave with the snapshot.                              *)
THEOREM IdleConnsAreSwept == Spec => []NoIdleEscapes
BY SafetyInvariant, PTL DEF SafeInv

\* CloseIdle, Drain and markIdle never close a conn that serves a request.
THEOREM RequestsAreSafe == Spec => []RequestsSurvive
<1>1. SafeInv => RequestsSurvive
  BY DEF SafeInv, ServingInv, RequestsSurvive
<1>2. QED BY <1>1, SafetyInvariant, PTL

\* The listener never runs its own closing of a conn on a disowned one.
THEOREM DisownedAreLeftAlone == Spec => []DisownedLeftAlone
<1>1. SafeInv => DisownedLeftAlone
  BY DEF SafeInv, HolderKnows, DisownedLeftAlone, Closing
<1>2. QED BY <1>1, SafetyInvariant, PTL

-----------------------------------------------------------------------------
(* Counting.  OutSet(s) is what wg[s] should count; a step adds one conn   *)
(* to it with the counter, takes one from it with the counter, or changes  *)
(* neither.                                                                *)

OutSet(s) == {c \in Conns : shard[c] = s /\ Outstanding(c)}
TwiceSet(s) == {c \in Twice : shard[c] = s}

Kept == \A d \in Twice : shard'[d] = shard[d]
SameOut ==
    /\ wg' = wg /\ Twice' = Twice /\ Kept
    /\ \A d \in Conns : Outstanding(d)' <=> Outstanding(d)
    /\ \A d \in Conns : Outstanding(d) => shard'[d] = shard[d]
Joins(c) ==
    /\ ~Outstanding(c) /\ shard' = shard /\ Twice' = Twice
    /\ wg' = [wg EXCEPT ![shard[c]] = @ + 1]
    /\ \A d \in Conns : Outstanding(d)' <=> Outstanding(d) \/ d = c
Leaves(c) ==
    /\ Outstanding(c) /\ shard' = shard /\ Twice' = Twice
    /\ wg' = [wg EXCEPT ![shard[c]] = @ - 1]
    /\ \A d \in Conns : Outstanding(d)' <=> Outstanding(d) /\ d # c
LeavesAgain(c) ==
    /\ c \notin Twice /\ shard' = shard /\ Twice' = Twice \cup {c}
    /\ wg' = [wg EXCEPT ![shard[c]] = @ - 1]
    /\ \A d \in Conns : Outstanding(d)' <=> Outstanding(d)
CountEffect ==
    SameOut \/ \E c \in Conns : Joins(c) \/ Leaves(c) \/ LeavesAgain(c)

\* The conns of a shard that are outstanding, or were counted twice, can be counted.
LEMMA OutSetFinite ==
    ASSUME StateOK, NEW s
    PROVE  /\ IsFiniteSet(OutSet(s)) /\ Cardinality(OutSet(s)) \in Nat
           /\ IsFiniteSet(TwiceSet(s)) /\ Cardinality(TwiceSet(s)) \in Nat
<1>1. OutSet(s) \subseteq Conns /\ TwiceSet(s) \subseteq Conns
  BY DEF OutSet, TwiceSet, Twice, StateOK
<1>2. QED BY <1>1, ListenerAssumption, FS_Subset, FS_CardinalityType DEF ListenerAssumption

\* What OutstandingCounted says of a shard while the program runs.
LEMMA CountOf ==
    ASSUME Alive, OutstandingCounted, NEW s \in Shards
    PROVE  wg[s] = Cardinality(OutSet(s)) - Cardinality(TwiceSet(s))
BY DEF Alive, At, OutstandingCounted, OutSet, TwiceSet

\* A counter that no conn has left twice is not negative ...
LEMMA ExactCount ==
    ASSUME StateOK, Alive, OutstandingCounted, NEW s \in Shards, Exact(s)
    PROVE  wg[s] = Cardinality(OutSet(s)) /\ wg[s] >= 0
<1>1. TwiceSet(s) = {}
  BY DEF Exact, TwiceSet
<1>2. Cardinality(TwiceSet(s)) = 0
  BY <1>1, FS_EmptySet
<1>3. QED BY <1>2, CountOf, OutSetFinite

\* ... and positive if a conn of the shard is outstanding: its Done cannot panic.
LEMMA PositiveCount ==
    ASSUME StateOK, Alive, OutstandingCounted, NEW c \in Conns, Outstanding(c),
           Exact(shard[c])
    PROVE  wg[shard[c]] > 0
<1>1. shard[c] \in Shards /\ c \in OutSet(shard[c])
  BY DEF OutSet, StateOK
<1>2. OutSet(shard[c]) # {}
  BY <1>1
<1>3. Cardinality(OutSet(shard[c])) # 0
  BY <1>2, OutSetFinite, FS_EmptySet
<1>4. QED BY <1>1, <1>3, ExactCount, OutSetFinite

\* As long as no conn is counted out twice, no Add and no Done goes below zero.
LEMMA PanicStep ==
    TypeOK /\ LockInv /\ Ownership /\ HolderKnows /\ OutstandingCounted /\ PanicInv /\
       [Next]_vars => PanicInv'
<1> SUFFICES ASSUME StateOK, ControlOK, LockInv, Ownership, HolderKnows,
                    OutstandingCounted, PanicInv, [Next]_vars
             PROVE  PanicInv'
  BY DEF TypeOK
<1> USE ListenerAssumption DEF tVars, shardVars, connVars, identity, walk, ghostVars,
   At, Enter, Goto, Return, Lock, Unlock, Managed, LockInv, Ownership, HolderKnows,
   PanicInv, Alive, Twice, StateOK, ControlOK, Holding, Walking
<1>1. ASSUME NEW g \in Procs, NEW c \in Conns, AcceptConn(g, c) PROVE PanicInv'
  BY <1>1 DEF AcceptConn, ShardOf
<1>2. ASSUME NEW g \in Procs, InitAdd(g) PROVE PanicInv'
  <2>1. cn[g] \in Conns /\ shard[cn[g]] \in Shards /\ Alive
    BY <1>2 DEF InitAdd
  <2>2. CASE Twice = {}
    <3>1. wg[shard[cn[g]]] >= 0
      BY <2>1, <2>2, ExactCount DEF Exact
    <3>2. QED BY <1>2, <2>1, <3>1 DEF InitAdd, Add, Panic
  <2>3. CASE Twice # {}
    BY <1>2, <2>1, <2>3 DEF InitAdd, Add, Panic
  <2>4. QED BY <2>2, <2>3
<1>3. ASSUME NEW g \in Procs, Track(g) PROVE PanicInv'
  BY <1>3 DEF Track
<1>4. ASSUME NEW g \in Procs, CloseListener(g) PROVE PanicInv'
  BY <1>4 DEF CloseListener
<1>5. ASSUME NEW g \in Procs, NEW c \in Conns, Close(g, c) PROVE PanicInv'
  BY <1>5 DEF Close, CloseBody, StartClosing
<1>6. ASSUME NEW g \in Procs, Refuse(g) PROVE PanicInv'
  BY <1>6 DEF Refuse, CloseBody, StartClosing
<1>7. ASSUME NEW g \in Procs, Unlist(g) PROVE PanicInv'
  BY <1>7 DEF Unlist
<1>8. ASSUME NEW g \in Procs, Hangup(g) PROVE PanicInv'
  BY <1>8 DEF Hangup
<1>9. ASSUME NEW g \in Procs, Done(g) PROVE PanicInv'
  <2>1. cn[g] \in Conns /\ Alive
    BY <1>9 DEF Done
  <2>2. CASE Twice # {}
    BY <1>9, <2>1, <2>2 DEF Done, WgDone, Add, Panic
  <2>3. CASE Twice = {}
    <3>1. Outstanding(cn[g])
      BY <1>9, <2>1 DEF Done, Outstanding, Closing
    <3>2. wg[shard[cn[g]]] > 0
      BY <2>1, <2>3, <3>1, PositiveCount DEF Exact
    <3>3. QED BY <1>9, <2>1, <3>2 DEF Done, WgDone, Add
  <2>4. QED BY <2>2, <2>3
<1>10. ASSUME NEW g \in Procs, NEW c \in Conns, Disown(g, c) PROVE PanicInv'
  BY <1>10 DEF Disown
<1>11. ASSUME NEW g \in Procs, Release(g) PROVE PanicInv'
  <2>1. cn[g] \in Conns /\ Alive
    BY <1>11 DEF Release
  <2>2. CASE Twice # {}
    BY <1>11, <2>1, <2>2 DEF Release, WgDone, Add, Panic
  <2>3. CASE cn[g] \in closed
    BY <1>11, <2>1, <2>3 DEF Release, WgDone, Add, Panic
  <2>4. CASE Twice = {} /\ cn[g] \notin closed
    <3>1. Outstanding(cn[g])
      BY <1>11, <2>1, <2>4 DEF Release, Outstanding
    <3>2. wg[shard[cn[g]]] > 0
      BY <2>1, <2>4, <3>1, PositiveCount DEF Exact
    <3>3. QED BY <1>11, <2>1, <3>2 DEF Release, WgDone, Add
  <2>5. QED BY <2>2, <2>3, <2>4
<1>12. ASSUME NEW g \in Procs, NEW c \in Conns, Read(g, c) PROVE PanicInv'
  BY <1>12 DEF Read
<1>13. ASSUME NEW g \in Procs, ReadIO(g) PROVE PanicInv'
  BY <1>13 DEF ReadIO
<1>14. ASSUME NEW g \in Procs, ReadDone(g) PROVE PanicInv'
  BY <1>14 DEF ReadDone
<1>15. ASSUME NEW g \in Procs, NEW c \in Conns, MarkInUse(g, c) PROVE PanicInv'
  BY <1>15 DEF MarkInUse
<1>16. ASSUME NEW g \in Procs, Use(g) PROVE PanicInv'
  BY <1>16 DEF Use
<1>17. ASSUME NEW g \in Procs, NEW c \in Conns, MarkIdle(g, c) PROVE PanicInv'
  BY <1>17 DEF MarkIdle, MarkIdleBody
<1>18. ASSUME NEW g \in Procs, NEW c \in Conns, SetReadDeadline(g, c)
      PROVE  PanicInv'
  BY <1>18 DEF SetReadDeadline
<1>19. ASSUME NEW g \in Procs, DeadlineIdle(g) PROVE PanicInv'
  BY <1>19 DEF DeadlineIdle, MarkIdleBody
<1>20. ASSUME NEW g \in Procs, Rest(g) PROVE PanicInv'
  BY <1>20 DEF Rest
<1>21. ASSUME NEW g \in Procs, NEW o \in Sweeps, StartSweep(g, o) PROVE PanicInv'
  BY <1>21 DEF StartSweep
<1>22. ASSUME NEW g \in Procs, Snapshot(g) PROVE PanicInv'
  BY <1>22 DEF Snapshot, StopsTracking
<1>23. ASSUME NEW g \in Procs, UnlockShard(g) PROVE PanicInv'
  BY <1>23 DEF UnlockShard
<1>24. ASSUME NEW g \in Procs, NEW c \in Conns, CloseNext(g, c) PROVE PanicInv'
  BY <1>24 DEF CloseNext, CloseBody, CloseIfIdleBody, StartClosing, MayShed
<1>25. ASSUME NEW g \in Procs, NextShard(g) PROVE PanicInv'
  BY <1>25 DEF NextShard, EndSweep
<1>26. ASSUME NEW g \in Procs, Wait(g) PROVE PanicInv'
  BY <1>26 DEF Wait, EndSweep
<1>27. CASE UNCHANGED vars
  BY <1>27 DEF vars
<1>28. QED
  BY <1>1, <1>2, <1>3, <1>4, <1>5, <1>6, <1>7, <1>8, <1>9, <1>10, <1>11, <1>12, <1>13,
     <1>14, <1>15, <1>16, <1>17, <1>18, <1>19, <1>20, <1>21, <1>22, <1>23, <1>24,
     <1>25, <1>26, <1>27 DEF Next, UserCall, Continue, Procs, Ended

(* Every step that does not end the program leaves the outstanding conns   *)
(* and the counters alone, adds or takes one conn from both, or takes a    *)
(* conn from its counter for the second time: the case analysis behind the *)
(* count.                                                                  *)
LEMMA CountEffectStep ==
    TypeOK /\ LockInv /\ Ownership /\ HolderKnows /\ Alive' /\ [Next]_vars => CountEffect
<1> SUFFICES ASSUME StateOK, ControlOK, LockInv, Ownership, HolderKnows, Alive',
                    [Next]_vars
             PROVE  CountEffect
  BY DEF TypeOK
<1> USE ListenerAssumption DEF tVars, shardVars, connVars, identity, walk, ghostVars,
   At, Enter, Goto, Return, Lock, Unlock, Managed, LockInv, Ownership, HolderKnows,
   Alive, Twice, Outstanding, Closing, StateOK, ControlOK, Holding, Walking
<1>1. ASSUME NEW g \in Procs, NEW c \in Conns, AcceptConn(g, c) PROVE CountEffect
  BY <1>1 DEF AcceptConn, ShardOf, CountEffect, SameOut, Kept
<1>2. ASSUME NEW g \in Procs, InitAdd(g) PROVE CountEffect
  <2>1. PICK c \in Conns : c = cn[g]
    BY <1>2 DEF InitAdd
  <2>2. ~Outstanding(c)
    BY <1>2, <2>1 DEF InitAdd
  <2>3. \/ pc' = [pc EXCEPT ![g] = "track"] /\ cn' = cn
        \/ pc' = [pc EXCEPT ![g] = pc'[g]] /\ pc'[g] # "add" /\ cn' = [cn EXCEPT ![g] = NoConn]
    BY <1>2 DEF InitAdd, Panic
  <2>4. \A d \in Conns : Outstanding(d)' <=> Outstanding(d) \/ d = c
    BY <1>2, <2>1, <2>3 DEF InitAdd
  <2>5. Joins(c)
    BY <1>2, <2>1, <2>2, <2>4 DEF InitAdd, Add, Joins
  <2>6. QED BY <2>5 DEF CountEffect
<1>3. ASSUME NEW g \in Procs, Track(g) PROVE CountEffect
  BY <1>3 DEF Track, CountEffect, SameOut, Kept
<1>4. ASSUME NEW g \in Procs, CloseListener(g) PROVE CountEffect
  BY <1>4 DEF CloseListener, CountEffect, SameOut, Kept
<1>5. ASSUME NEW g \in Procs, NEW c \in Conns, Close(g, c) PROVE CountEffect
  BY <1>5 DEF Close, CloseBody, StartClosing, CountEffect, SameOut, Kept
<1>6. ASSUME NEW g \in Procs, Refuse(g) PROVE CountEffect
  BY <1>6 DEF Refuse, CloseBody, StartClosing, CountEffect, SameOut, Kept
<1>7. ASSUME NEW g \in Procs, Unlist(g) PROVE CountEffect
  BY <1>7 DEF Unlist, CountEffect, SameOut, Kept
<1>8. ASSUME NEW g \in Procs, Hangup(g) PROVE CountEffect
  BY <1>8 DEF Hangup, CountEffect, SameOut, Kept
<1>9. ASSUME NEW g \in Procs, Done(g) PROVE CountEffect
  <2>1. PICK c \in Conns : c = cn[g]
    BY <1>9 DEF Done
  <2>2. Outstanding(c)
    BY <1>9, <2>1 DEF Done
  <2>3. pc' = [pc EXCEPT ![g] = pc'[g]] /\ pc'[g] \in {"ready", "close"}
    BY <1>9 DEF Done, WgDone, Panic
  <2>4. cn' = [cn EXCEPT ![g] = NoConn]
    BY <1>9 DEF Done, WgDone, Panic
  <2>5. \A d \in Conns : Outstanding(d)' <=> Outstanding(d) /\ d # c
    BY <1>9, <2>1, <2>2, <2>3, <2>4 DEF Done, WgDone
  <2>6. Leaves(c)
    BY <1>9, <2>1, <2>2, <2>5 DEF Done, WgDone, Add, Leaves
  <2>7. QED BY <2>6 DEF CountEffect
<1>10. ASSUME NEW g \in Procs, NEW c \in Conns, Disown(g, c) PROVE CountEffect
  BY <1>10 DEF Disown, CountEffect, SameOut, Kept
<1>11. ASSUME NEW g \in Procs, Release(g) PROVE CountEffect
  <2>1. PICK c \in Conns : c = cn[g]
    BY <1>11 DEF Release
  <2>2. pc' = [pc EXCEPT ![g] = pc'[g]] /\ pc'[g] \in {"ready", "close"}
    BY <1>11 DEF Release, WgDone, Panic
  <2>3. cn' = [cn EXCEPT ![g] = NoConn]
    BY <1>11 DEF Release, WgDone, Panic
  <2>4. CASE c \notin closed
    <3>1. Outstanding(c)
      BY <1>11, <2>1, <2>4 DEF Release
    <3>2. \A d \in Conns : Outstanding(d)' <=> Outstanding(d) /\ d # c
      BY <1>11, <2>1, <2>2, <2>3 DEF Release, WgDone
    <3>3. Twice' = Twice
      BY <1>11, <2>1, <2>4 DEF Release
    <3>4. wg' = [wg EXCEPT ![shard[c]] = @ - 1] /\ shard' = shard
      BY <1>11, <2>1 DEF Release, WgDone, Add
    <3>5. Leaves(c)
      BY <3>1, <3>2, <3>3, <3>4 DEF Leaves
    <3>6. QED BY <3>5 DEF CountEffect
  <2>5. CASE c \in closed
    <3>1. ~Outstanding(c)
      BY <1>11, <2>1, <2>5 DEF Release
    <3>2. \A d \in Conns : Outstanding(d)' <=> Outstanding(d)
      BY <1>11, <2>1, <2>2, <2>3, <3>1 DEF Release, WgDone
    <3>3. c \notin Twice /\ Twice' = Twice \cup {c}
      BY <1>11, <2>1, <2>5 DEF Release
    <3>4. wg' = [wg EXCEPT ![shard[c]] = @ - 1] /\ shard' = shard
      BY <1>11, <2>1 DEF Release, WgDone, Add
    <3>5. LeavesAgain(c)
      BY <3>2, <3>3, <3>4 DEF LeavesAgain
    <3>6. QED BY <3>5 DEF CountEffect
  <2>6. QED BY <2>4, <2>5
<1>12. ASSUME NEW g \in Procs, NEW c \in Conns, Read(g, c) PROVE CountEffect
  BY <1>12 DEF Read, CountEffect, SameOut, Kept
<1>13. ASSUME NEW g \in Procs, ReadIO(g) PROVE CountEffect
  BY <1>13 DEF ReadIO, CountEffect, SameOut, Kept
<1>14. ASSUME NEW g \in Procs, ReadDone(g) PROVE CountEffect
  BY <1>14 DEF ReadDone, CountEffect, SameOut, Kept
<1>15. ASSUME NEW g \in Procs, NEW c \in Conns, MarkInUse(g, c) PROVE CountEffect
  <2>1. CASE c \in busy
    BY <1>15, <2>1 DEF MarkInUse, SameOut, Kept, CountEffect
  <2>2. CASE c \notin busy
    BY <1>15, <2>2 DEF MarkInUse, SameOut, Kept, CountEffect
  <2>3. QED BY <2>1, <2>2
<1>16. ASSUME NEW g \in Procs, Use(g) PROVE CountEffect
  BY <1>16 DEF Use, CountEffect, SameOut, Kept
<1>17. ASSUME NEW g \in Procs, NEW c \in Conns, MarkIdle(g, c) PROVE CountEffect
  <2>1. CASE c \in busy
    BY <1>17, <2>1 DEF MarkIdle, MarkIdleBody, CountEffect, SameOut, Kept
  <2>2. CASE c \notin busy
    BY <1>17, <2>2 DEF MarkIdle, MarkIdleBody, CountEffect, SameOut, Kept
  <2>3. QED BY <2>1, <2>2
<1>18. ASSUME NEW g \in Procs, NEW c \in Conns, SetReadDeadline(g, c) PROVE CountEffect
  BY <1>18 DEF SetReadDeadline, CountEffect, SameOut, Kept
<1>19. ASSUME NEW g \in Procs, DeadlineIdle(g) PROVE CountEffect
  <2>1. CASE cn[g] \in busy
    BY <1>19, <2>1 DEF DeadlineIdle, MarkIdleBody, CountEffect, SameOut, Kept
  <2>2. CASE cn[g] \notin busy
    BY <1>19, <2>2 DEF DeadlineIdle, MarkIdleBody, CountEffect, SameOut, Kept
  <2>3. QED BY <2>1, <2>2
<1>20. ASSUME NEW g \in Procs, Rest(g) PROVE CountEffect
  BY <1>20 DEF Rest, CountEffect, SameOut, Kept
<1>21. ASSUME NEW g \in Procs, NEW o \in Sweeps, StartSweep(g, o) PROVE CountEffect
  BY <1>21 DEF StartSweep, CountEffect, SameOut, Kept
<1>22. ASSUME NEW g \in Procs, Snapshot(g) PROVE CountEffect
  BY <1>22 DEF Snapshot, StopsTracking, CountEffect, SameOut, Kept
<1>23. ASSUME NEW g \in Procs, UnlockShard(g) PROVE CountEffect
  BY <1>23 DEF UnlockShard, CountEffect, SameOut, Kept
<1>24. ASSUME NEW g \in Procs, NEW c \in Conns, CloseNext(g, c) PROVE CountEffect
  BY <1>24 DEF CloseNext, CloseBody, CloseIfIdleBody, StartClosing, MayShed,
     CountEffect, SameOut, Kept
<1>25. ASSUME NEW g \in Procs, NextShard(g) PROVE CountEffect
  BY <1>25 DEF NextShard, EndSweep, CountEffect, SameOut, Kept
<1>26. ASSUME NEW g \in Procs, Wait(g) PROVE CountEffect
  BY <1>26 DEF Wait, EndSweep, CountEffect, SameOut, Kept
<1>27. CASE UNCHANGED vars
  BY <1>27 DEF vars, CountEffect, SameOut, Kept
<1>28. QED
  BY <1>1, <1>2, <1>3, <1>4, <1>5, <1>6, <1>7, <1>8, <1>9, <1>10, <1>11, <1>12, <1>13,
     <1>14, <1>15, <1>16, <1>17, <1>18, <1>19, <1>20, <1>21, <1>22, <1>23, <1>24,
     <1>25, <1>26, <1>27 DEF Next, UserCall, Continue, Procs, Ended

\* A step with one of these effects keeps every counter right.
LEMMA CountStep ==
    ASSUME StateOK, Alive, OutstandingCounted, CountEffect
    PROVE  OutstandingCounted'
<1> DEFINE out(s) == Cardinality(OutSet(s))
           twice(s) == Cardinality(TwiceSet(s))
<1> SUFFICES ASSUME NEW s \in Shards PROVE wg'[s] = out(s)' - twice(s)'
  BY DEF OutstandingCounted, OutSet, TwiceSet
<1>1. wg[s] = out(s) - twice(s) /\ out(s) \in Nat /\ twice(s) \in Nat
  BY CountOf, OutSetFinite
<1>2. CASE SameOut
  <2>1. OutSet(s)' = OutSet(s) /\ TwiceSet(s)' = TwiceSet(s)
    BY <1>2 DEF OutSet, TwiceSet, SameOut, Kept
  <2>2. QED BY <1>1, <1>2, <2>1 DEF SameOut
<1>3. ASSUME NEW c \in Conns, Joins(c) PROVE wg'[s] = out(s)' - twice(s)'
  <2>1. TwiceSet(s)' = TwiceSet(s)
    BY <1>3 DEF TwiceSet, Joins
  <2>2. CASE shard[c] = s
    <3>1. OutSet(s)' = OutSet(s) \cup {c} /\ c \notin OutSet(s)
      BY <1>3, <2>2 DEF OutSet, Joins
    <3>2. out(s)' = out(s) + 1
      BY <3>1, OutSetFinite, FS_AddElement
    <3>3. QED BY <1>1, <1>3, <2>1, <2>2, <3>2 DEF StateOK, Joins
  <2>3. CASE shard[c] # s
    <3>1. OutSet(s)' = OutSet(s)
      BY <1>3, <2>3 DEF OutSet, Joins
    <3>2. QED BY <1>1, <1>3, <2>1, <2>3, <3>1 DEF StateOK, Joins
  <2>4. QED BY <2>2, <2>3
<1>4. ASSUME NEW c \in Conns, Leaves(c) PROVE wg'[s] = out(s)' - twice(s)'
  <2>1. TwiceSet(s)' = TwiceSet(s)
    BY <1>4 DEF TwiceSet, Leaves
  <2>2. CASE shard[c] = s
    <3>1. OutSet(s)' = OutSet(s) \ {c} /\ c \in OutSet(s)
      BY <1>4, <2>2 DEF OutSet, Leaves
    <3>2. out(s)' = out(s) - 1
      BY <3>1, OutSetFinite, FS_RemoveElement
    <3>3. QED BY <1>1, <1>4, <2>1, <2>2, <3>2 DEF StateOK, Leaves
  <2>3. CASE shard[c] # s
    <3>1. OutSet(s)' = OutSet(s)
      BY <1>4, <2>3 DEF OutSet, Leaves
    <3>2. QED BY <1>1, <1>4, <2>1, <2>3, <3>1 DEF StateOK, Leaves
  <2>4. QED BY <2>2, <2>3
<1>5. ASSUME NEW c \in Conns, LeavesAgain(c) PROVE wg'[s] = out(s)' - twice(s)'
  <2>1. OutSet(s)' = OutSet(s)
    BY <1>5 DEF OutSet, LeavesAgain
  <2>2. CASE shard[c] = s
    <3>1. TwiceSet(s)' = TwiceSet(s) \cup {c} /\ c \notin TwiceSet(s)
      BY <1>5, <2>2 DEF TwiceSet, LeavesAgain
    <3>2. twice(s)' = twice(s) + 1
      BY <3>1, OutSetFinite, FS_AddElement
    <3>3. QED BY <1>1, <1>5, <2>1, <2>2, <3>2 DEF StateOK, LeavesAgain
  <2>3. CASE shard[c] # s
    <3>1. TwiceSet(s)' = TwiceSet(s)
      BY <1>5, <2>3 DEF TwiceSet, LeavesAgain
    <3>2. QED BY <1>1, <1>5, <2>1, <2>3, <3>1 DEF StateOK, LeavesAgain
  <2>4. QED BY <2>2, <2>3
<1>6. QED BY <1>2, <1>3, <1>4, <1>5 DEF CountEffect

-----------------------------------------------------------------------------
(* Draining.                                                               *)

OutShrinks ==
    /\ closed \subseteq closed' /\ disowned \subseteq disowned'
    /\ \A d \in live :
          /\ Outstanding(d)' => Outstanding(d)
          /\ shard'[d] = shard[d]
          /\ d \in open' => d \in open
NoJoin == drain \subseteq drain' /\ \A d \in live' \ live : shard'[d] \notin drain'
WaitProgress ==
    /\ \A h \in Procs : pc'[h] = "wait" =>
          \/ at'[h] = 0
          \/ pc[h] = "wait" /\ at'[h] = at[h]
          \/ pc[h] = "wait" /\ at'[h] = at[h] + 1 /\ wg[at[h]] = 0
    /\ drained' /\ ~drained =>
          \E h \in Procs : pc[h] = "wait" /\ at[h] + 1 = NumShards /\ wg[at[h]] = 0

\* A conn that Accept has returned never becomes outstanding, or open, again.
LEMMA OutShrinksStep ==
    TypeOK /\ LockInv /\ Ownership /\ HolderKnows /\ [Next]_vars => OutShrinks
<1> SUFFICES ASSUME StateOK, ControlOK, LockInv, Ownership, HolderKnows, [Next]_vars
             PROVE  OutShrinks
  BY DEF TypeOK
<1> USE ListenerAssumption DEF tVars, shardVars, connVars, identity, walk, ghostVars,
   At, Enter, Goto, Return, Lock, Unlock, Managed, LockInv, Ownership, HolderKnows,
   OutShrinks, Outstanding, Closing, StateOK, ControlOK, Holding, Walking
<1>1. ASSUME NEW g \in Procs, NEW c \in Conns, AcceptConn(g, c) PROVE OutShrinks
  BY <1>1 DEF AcceptConn, ShardOf
<1>2. ASSUME NEW g \in Procs, InitAdd(g) PROVE OutShrinks
  BY <1>2 DEF InitAdd, Add, Panic
<1>3. ASSUME NEW g \in Procs, Track(g) PROVE OutShrinks
  BY <1>3 DEF Track
<1>4. ASSUME NEW g \in Procs, CloseListener(g) PROVE OutShrinks
  BY <1>4 DEF CloseListener
<1>5. ASSUME NEW g \in Procs, NEW c \in Conns, Close(g, c) PROVE OutShrinks
  BY <1>5 DEF Close, CloseBody, StartClosing
<1>6. ASSUME NEW g \in Procs, Refuse(g) PROVE OutShrinks
  BY <1>6 DEF Refuse, CloseBody, StartClosing
<1>7. ASSUME NEW g \in Procs, Unlist(g) PROVE OutShrinks
  BY <1>7 DEF Unlist
<1>8. ASSUME NEW g \in Procs, Hangup(g) PROVE OutShrinks
  BY <1>8 DEF Hangup
<1>9. ASSUME NEW g \in Procs, Done(g) PROVE OutShrinks
  BY <1>9 DEF Done, WgDone, Add, Panic
<1>10. ASSUME NEW g \in Procs, NEW c \in Conns, Disown(g, c) PROVE OutShrinks
  BY <1>10 DEF Disown
<1>11. ASSUME NEW g \in Procs, Release(g) PROVE OutShrinks
  BY <1>11 DEF Release, WgDone, Add, Panic
<1>12. ASSUME NEW g \in Procs, NEW c \in Conns, Read(g, c) PROVE OutShrinks
  BY <1>12 DEF Read
<1>13. ASSUME NEW g \in Procs, ReadIO(g) PROVE OutShrinks
  BY <1>13 DEF ReadIO
<1>14. ASSUME NEW g \in Procs, ReadDone(g) PROVE OutShrinks
  BY <1>14 DEF ReadDone
<1>15. ASSUME NEW g \in Procs, NEW c \in Conns, MarkInUse(g, c) PROVE OutShrinks
  BY <1>15 DEF MarkInUse
<1>16. ASSUME NEW g \in Procs, Use(g) PROVE OutShrinks
  BY <1>16 DEF Use
<1>17. ASSUME NEW g \in Procs, NEW c \in Conns, MarkIdle(g, c) PROVE OutShrinks
  BY <1>17 DEF MarkIdle, MarkIdleBody
<1>18. ASSUME NEW g \in Procs, NEW c \in Conns, SetReadDeadline(g, c) PROVE OutShrinks
  BY <1>18 DEF SetReadDeadline
<1>19. ASSUME NEW g \in Procs, DeadlineIdle(g) PROVE OutShrinks
  BY <1>19 DEF DeadlineIdle, MarkIdleBody
<1>20. ASSUME NEW g \in Procs, Rest(g) PROVE OutShrinks
  BY <1>20 DEF Rest
<1>21. ASSUME NEW g \in Procs, NEW o \in Sweeps, StartSweep(g, o) PROVE OutShrinks
  BY <1>21 DEF StartSweep
<1>22. ASSUME NEW g \in Procs, Snapshot(g) PROVE OutShrinks
  BY <1>22 DEF Snapshot, StopsTracking
<1>23. ASSUME NEW g \in Procs, UnlockShard(g) PROVE OutShrinks
  BY <1>23 DEF UnlockShard
<1>24. ASSUME NEW g \in Procs, NEW c \in Conns, CloseNext(g, c) PROVE OutShrinks
  BY <1>24 DEF CloseNext, CloseBody, CloseIfIdleBody, StartClosing, MayShed
<1>25. ASSUME NEW g \in Procs, NextShard(g) PROVE OutShrinks
  BY <1>25 DEF NextShard, EndSweep
<1>26. ASSUME NEW g \in Procs, Wait(g) PROVE OutShrinks
  BY <1>26 DEF Wait, EndSweep
<1>27. CASE UNCHANGED vars
  BY <1>27 DEF vars
<1>28. QED
  BY <1>1, <1>2, <1>3, <1>4, <1>5, <1>6, <1>7, <1>8, <1>9, <1>10, <1>11, <1>12, <1>13,
     <1>14, <1>15, <1>16, <1>17, <1>18, <1>19, <1>20, <1>21, <1>22, <1>23, <1>24,
     <1>25, <1>26, <1>27 DEF Next, UserCall, Continue, Procs, Ended

\* A marked shard stays marked and gets no new conn.
LEMMA NoJoinStep == TypeOK /\ [Next]_vars => NoJoin
<1> SUFFICES ASSUME StateOK, ControlOK, [Next]_vars
             PROVE  NoJoin
  BY DEF TypeOK
<1> USE ListenerAssumption DEF tVars, shardVars, connVars, identity, walk, ghostVars,
   At, Enter, Goto, Return, Lock, Unlock, Managed, NoJoin, StateOK
<1>1. ASSUME NEW g \in Procs, NEW c \in Conns, AcceptConn(g, c) PROVE NoJoin
  BY <1>1 DEF AcceptConn, ShardOf
<1>2. ASSUME NEW g \in Procs, InitAdd(g) PROVE NoJoin
  BY <1>2 DEF InitAdd, Add, Panic
<1>3. ASSUME NEW g \in Procs, Track(g) PROVE NoJoin
  BY <1>3 DEF Track
<1>4. ASSUME NEW g \in Procs, CloseListener(g) PROVE NoJoin
  BY <1>4 DEF CloseListener
<1>5. ASSUME NEW g \in Procs, NEW c \in Conns, Close(g, c) PROVE NoJoin
  BY <1>5 DEF Close, CloseBody, StartClosing
<1>6. ASSUME NEW g \in Procs, Refuse(g) PROVE NoJoin
  BY <1>6 DEF Refuse, CloseBody, StartClosing
<1>7. ASSUME NEW g \in Procs, Unlist(g) PROVE NoJoin
  BY <1>7 DEF Unlist
<1>8. ASSUME NEW g \in Procs, Hangup(g) PROVE NoJoin
  BY <1>8 DEF Hangup
<1>9. ASSUME NEW g \in Procs, Done(g) PROVE NoJoin
  BY <1>9 DEF Done, WgDone, Add, Panic
<1>10. ASSUME NEW g \in Procs, NEW c \in Conns, Disown(g, c) PROVE NoJoin
  BY <1>10 DEF Disown
<1>11. ASSUME NEW g \in Procs, Release(g) PROVE NoJoin
  BY <1>11 DEF Release, WgDone, Add, Panic
<1>12. ASSUME NEW g \in Procs, NEW c \in Conns, Read(g, c) PROVE NoJoin
  BY <1>12 DEF Read
<1>13. ASSUME NEW g \in Procs, ReadIO(g) PROVE NoJoin
  BY <1>13 DEF ReadIO
<1>14. ASSUME NEW g \in Procs, ReadDone(g) PROVE NoJoin
  BY <1>14 DEF ReadDone
<1>15. ASSUME NEW g \in Procs, NEW c \in Conns, MarkInUse(g, c) PROVE NoJoin
  BY <1>15 DEF MarkInUse
<1>16. ASSUME NEW g \in Procs, Use(g) PROVE NoJoin
  BY <1>16 DEF Use
<1>17. ASSUME NEW g \in Procs, NEW c \in Conns, MarkIdle(g, c) PROVE NoJoin
  BY <1>17 DEF MarkIdle, MarkIdleBody
<1>18. ASSUME NEW g \in Procs, NEW c \in Conns, SetReadDeadline(g, c) PROVE NoJoin
  BY <1>18 DEF SetReadDeadline
<1>19. ASSUME NEW g \in Procs, DeadlineIdle(g) PROVE NoJoin
  BY <1>19 DEF DeadlineIdle, MarkIdleBody
<1>20. ASSUME NEW g \in Procs, Rest(g) PROVE NoJoin
  BY <1>20 DEF Rest
<1>21. ASSUME NEW g \in Procs, NEW o \in Sweeps, StartSweep(g, o) PROVE NoJoin
  BY <1>21 DEF StartSweep
<1>22. ASSUME NEW g \in Procs, Snapshot(g) PROVE NoJoin
  BY <1>22 DEF Snapshot, StopsTracking
<1>23. ASSUME NEW g \in Procs, UnlockShard(g) PROVE NoJoin
  BY <1>23 DEF UnlockShard
<1>24. ASSUME NEW g \in Procs, NEW c \in Conns, CloseNext(g, c) PROVE NoJoin
  BY <1>24 DEF CloseNext, CloseBody, CloseIfIdleBody, StartClosing, MayShed
<1>25. ASSUME NEW g \in Procs, NextShard(g) PROVE NoJoin
  BY <1>25 DEF NextShard, EndSweep
<1>26. ASSUME NEW g \in Procs, Wait(g) PROVE NoJoin
  BY <1>26 DEF Wait, EndSweep
<1>27. CASE UNCHANGED vars
  BY <1>27 DEF vars
<1>28. QED
  BY <1>1, <1>2, <1>3, <1>4, <1>5, <1>6, <1>7, <1>8, <1>9, <1>10, <1>11, <1>12, <1>13,
     <1>14, <1>15, <1>16, <1>17, <1>18, <1>19, <1>20, <1>21, <1>22, <1>23, <1>24,
     <1>25, <1>26, <1>27 DEF Next, UserCall, Continue, Procs, Ended

\* A drain moves on to the next shard, or returns, only over a counter at zero.
LEMMA WaitStep == TypeOK /\ [Next]_vars => WaitProgress
<1> SUFFICES ASSUME StateOK, ControlOK, [Next]_vars
             PROVE  WaitProgress
  BY DEF TypeOK
<1> USE ListenerAssumption DEF tVars, shardVars, connVars, identity, walk, ghostVars,
   At, Enter, Goto, Return, Lock, Unlock, Managed, WaitProgress, StateOK, ControlOK,
   Shards
<1>1. ASSUME NEW g \in Procs, NEW c \in Conns, AcceptConn(g, c) PROVE WaitProgress
  BY <1>1 DEF AcceptConn, ShardOf
<1>2. ASSUME NEW g \in Procs, InitAdd(g) PROVE WaitProgress
  BY <1>2 DEF InitAdd, Add, Panic
<1>3. ASSUME NEW g \in Procs, Track(g) PROVE WaitProgress
  BY <1>3 DEF Track
<1>4. ASSUME NEW g \in Procs, CloseListener(g) PROVE WaitProgress
  BY <1>4 DEF CloseListener
<1>5. ASSUME NEW g \in Procs, NEW c \in Conns, Close(g, c) PROVE WaitProgress
  BY <1>5 DEF Close, CloseBody, StartClosing
<1>6. ASSUME NEW g \in Procs, Refuse(g) PROVE WaitProgress
  BY <1>6 DEF Refuse, CloseBody, StartClosing
<1>7. ASSUME NEW g \in Procs, Unlist(g) PROVE WaitProgress
  BY <1>7 DEF Unlist
<1>8. ASSUME NEW g \in Procs, Hangup(g) PROVE WaitProgress
  BY <1>8 DEF Hangup
<1>9. ASSUME NEW g \in Procs, Done(g) PROVE WaitProgress
  BY <1>9 DEF Done, WgDone, Add, Panic
<1>10. ASSUME NEW g \in Procs, NEW c \in Conns, Disown(g, c) PROVE WaitProgress
  BY <1>10 DEF Disown
<1>11. ASSUME NEW g \in Procs, Release(g) PROVE WaitProgress
  BY <1>11 DEF Release, WgDone, Add, Panic
<1>12. ASSUME NEW g \in Procs, NEW c \in Conns, Read(g, c) PROVE WaitProgress
  BY <1>12 DEF Read
<1>13. ASSUME NEW g \in Procs, ReadIO(g) PROVE WaitProgress
  BY <1>13 DEF ReadIO
<1>14. ASSUME NEW g \in Procs, ReadDone(g) PROVE WaitProgress
  BY <1>14 DEF ReadDone
<1>15. ASSUME NEW g \in Procs, NEW c \in Conns, MarkInUse(g, c) PROVE WaitProgress
  BY <1>15 DEF MarkInUse
<1>16. ASSUME NEW g \in Procs, Use(g) PROVE WaitProgress
  BY <1>16 DEF Use
<1>17. ASSUME NEW g \in Procs, NEW c \in Conns, MarkIdle(g, c) PROVE WaitProgress
  BY <1>17 DEF MarkIdle, MarkIdleBody
<1>18. ASSUME NEW g \in Procs, NEW c \in Conns, SetReadDeadline(g, c) PROVE WaitProgress
  BY <1>18 DEF SetReadDeadline
<1>19. ASSUME NEW g \in Procs, DeadlineIdle(g) PROVE WaitProgress
  BY <1>19 DEF DeadlineIdle, MarkIdleBody
<1>20. ASSUME NEW g \in Procs, Rest(g) PROVE WaitProgress
  BY <1>20 DEF Rest
<1>21. ASSUME NEW g \in Procs, NEW o \in Sweeps, StartSweep(g, o) PROVE WaitProgress
  BY <1>21 DEF StartSweep
<1>22. ASSUME NEW g \in Procs, Snapshot(g) PROVE WaitProgress
  BY <1>22 DEF Snapshot, StopsTracking
<1>23. ASSUME NEW g \in Procs, UnlockShard(g) PROVE WaitProgress
  BY <1>23 DEF UnlockShard
<1>24. ASSUME NEW g \in Procs, NEW c \in Conns, CloseNext(g, c) PROVE WaitProgress
  BY <1>24 DEF CloseNext, CloseBody, CloseIfIdleBody, StartClosing, MayShed
<1>25. ASSUME NEW g \in Procs, NextShard(g) PROVE WaitProgress
  BY <1>25 DEF NextShard, EndSweep
<1>26. ASSUME NEW g \in Procs, Wait(g) PROVE WaitProgress
  BY <1>26 DEF Wait, EndSweep
<1>27. CASE UNCHANGED vars
  BY <1>27 DEF vars
<1>28. QED
  BY <1>1, <1>2, <1>3, <1>4, <1>5, <1>6, <1>7, <1>8, <1>9, <1>10, <1>11, <1>12, <1>13,
     <1>14, <1>15, <1>16, <1>17, <1>18, <1>19, <1>20, <1>21, <1>22, <1>23, <1>24,
     <1>25, <1>26, <1>27 DEF Next, UserCall, Continue, Procs, Ended

(* A drain has nothing outstanding behind it in a shard whose counter was  *)
(* right: not in the shards it has waited for, and not at all once it has  *)
(* returned.                                                               *)
LEMMA FinishStep ==
    ASSUME TypeOK, SweepInv, Ownership, OpenInv, PanicInv, OutstandingCounted, MarksFirst,
           Waited, Finished, TypeOK', SweepInv', MarksFirst', OutShrinks, NoJoin, WaitProgress
    PROVE  Waited' /\ Finished'
<1> USE DEF NoJoin
<1>1. ASSUME NEW c \in live, Exact(shard[c])'
      PROVE  c \in Conns /\ shard'[c] = shard[c] /\ shard[c] \in Shards /\ Exact(shard[c])
  <2>1. c \in Conns /\ shard'[c] = shard[c] /\ shard[c] \in Shards
    BY <1>1 DEF TypeOK, StateOK, OutShrinks
  <2>2. \A d \in Twice : d \in live /\ d \in Twice'
    BY DEF Twice, Ownership, OutShrinks
  <2>3. QED BY <1>1, <2>1, <2>2 DEF Exact, OutShrinks
<1>2. ASSUME NEW h \in Procs, pc[h] = "wait", wg[at[h]] = 0, NEW c \in live,
             Exact(shard[c])', shard[c] = at[h]
      PROVE  ~Outstanding(c)
  <2>1. Alive
    BY <1>2 DEF PanicInv, Alive
  <2>2. QED BY <1>1, <1>2, <2>1, PositiveCount DEF TypeOK
<1>3. Waited'
  <2> SUFFICES ASSUME NEW h \in Procs, pc'[h] = "wait", NEW c \in live', shard'[c] < at'[h],
                      Exact(shard[c])'
               PROVE  ~Outstanding(c)'
    BY DEF Waited
  <2>1. c \in Conns /\ shard'[c] \in Shards /\ at[h] \in Shards
    BY DEF TypeOK, StateOK, ControlOK
  <2>2. Shards \subseteq drain'
    BY DEF SweepInv, MarksFirst, Marked, TypeOK, ControlOK, Sweeps
  <2>3. c \in live
    BY <2>1, <2>2
  <2>4. shard'[c] = shard[c] /\ Exact(shard[c])
    BY <1>1, <2>3
  <2>5. CASE pc[h] = "wait" /\ at'[h] = at[h]
    BY <2>3, <2>4, <2>5 DEF OutShrinks, Waited
  <2>6. CASE pc[h] = "wait" /\ at'[h] = at[h] + 1 /\ wg[at[h]] = 0
    <3>1. CASE shard[c] = at[h]
      BY <1>2, <2>3, <2>6, <3>1 DEF OutShrinks
    <3>2. CASE shard[c] # at[h]
      BY <2>1, <2>3, <2>4, <2>6, <3>2 DEF OutShrinks, Waited, Shards
    <3>3. QED BY <3>1, <3>2
  <2>7. at'[h] # 0
    BY <2>1 DEF Shards
  <2>8. QED BY <2>5, <2>6, <2>7 DEF WaitProgress
<1>4. Finished'
  <2> SUFFICES ASSUME drained'
               PROVE  /\ Shards \subseteq drain'
                      /\ \A c \in live' : Exact(shard[c])' =>
                            ~Outstanding(c)' /\ (c \in disowned' \/ c \notin open')
    BY DEF Finished
  <2>1. Shards \subseteq drain'
    <3>1. CASE drained
      BY <3>1 DEF Finished
    <3>2. CASE ~drained
      BY <3>2 DEF WaitProgress, SweepInv, MarksFirst, Marked, TypeOK, ControlOK, Sweeps
    <3>3. QED BY <3>1, <3>2
  <2>2. ASSUME NEW c \in live', Exact(shard[c])'
        PROVE  ~Outstanding(c)' /\ (c \in disowned' \/ c \notin open')
    <3>1. c \in live
      BY <2>1, <2>2 DEF TypeOK, StateOK
    <3>2. /\ c \in Conns /\ shard'[c] = shard[c] /\ shard[c] \in Shards
          /\ Exact(shard[c])
      BY <1>1, <2>2, <3>1
    <3>3. CASE drained
      BY <3>1, <3>2, <3>3 DEF Finished, OutShrinks
    <3>4. CASE ~drained
      <4>1. PICK h \in Procs : pc[h] = "wait" /\ at[h] + 1 = NumShards /\ wg[at[h]] = 0
        BY <3>4 DEF WaitProgress
      <4>2. at[h] \in Shards /\ shard[c] <= at[h] /\ Alive
        BY <3>2, <4>1, ListenerAssumption
           DEF Shards, TypeOK, ControlOK, ListenerAssumption, PanicInv, Alive
      <4>3. shard[c] = at[h] => ~Outstanding(c)
        BY <1>2, <2>2, <3>1, <4>1
      <4>4. shard[c] < at[h] => ~Outstanding(c)
        BY <3>1, <3>2, <4>1 DEF Waited
      <4>5. ~Outstanding(c)
        BY <3>2, <4>2, <4>3, <4>4 DEF Shards
      <4>6. c \in accepted /\ \A g \in Procs : cn[g] = c => pc[g] # "add"
        BY <3>1, <3>2, ListenerAssumption DEF Ownership, ListenerAssumption
      <4>7. c \in disowned \/ c \notin open
        BY <4>2, <4>5, <4>6 DEF Outstanding, Closing, OpenInv, Alive
      <4>8. QED BY <3>1, <4>5, <4>7 DEF OutShrinks
    <3>5. QED BY <3>3, <3>4
  <2>3. QED BY <2>1, <2>2
<1>5. QED BY <1>3, <1>4

\* The initial states satisfy the counting invariant.
LEMMA InitCount == Init => CountInv
<1> SUFFICES ASSUME Init PROVE CountInv
  OBVIOUS
<1>1. \A s : OutSet(s) = {} /\ TwiceSet(s) = {}
  BY DEF Init, OutSet, Outstanding, TwiceSet, Twice
<1>2. \A s \in Shards : wg[s] = Cardinality(OutSet(s)) - Cardinality(TwiceSet(s))
  BY <1>1, FS_EmptySet DEF Init
<1>3. OutstandingCounted
  BY <1>2 DEF OutstandingCounted, OutSet, TwiceSet
<1>4. PanicInv /\ Waited /\ Finished
  BY DEF Init, PanicInv, Alive, Waited, Finished
<1>5. QED BY <1>3, <1>4, InitSafe DEF CountInv

\* A program that has not panicked after a step had not before it.
LEMMA AliveBefore == TypeOK /\ PanicInv /\ [Next]_vars /\ Alive' => Alive
<1> SUFFICES ASSUME TypeOK, PanicInv, [Next]_vars, Alive', ~Alive
             PROVE  FALSE
  OBVIOUS
<1>1. \A g \in Procs : pc[g] = "panicked"
  BY DEF PanicInv, Alive
<1>2. Procs # {}
  BY DEF Alive
<1>3. UNCHANGED pc
  BY <1>1
     DEF Next, UserCall, Continue, Procs, Ended, At, vars, AcceptConn, InitAdd, Track,
         CloseListener, Close, Refuse, Unlist, Hangup, Done, Disown, Release, Read,
         ReadIO, ReadDone, MarkInUse, Use, MarkIdle, SetReadDeadline, DeadlineIdle, Rest,
         StartSweep, Snapshot, UnlockShard, CloseNext, NextShard, Wait
<1>4. QED BY <1>1, <1>2, <1>3 DEF Alive

\* Whatever its callers do, every state the code reaches satisfies CountInv.
THEOREM CountInvariant == Spec => []CountInv
<1>1. Init => CountInv
  BY InitCount
<1>2. CountInv /\ [Next]_vars => CountInv'
  <2> SUFFICES ASSUME CountInv, [Next]_vars PROVE CountInv'
    OBVIOUS
  <2>1. /\ TypeOK /\ SweepInv /\ LockInv /\ Ownership /\ HolderKnows /\ OpenInv
        /\ MarksFirst /\ PanicInv
    BY DEF CountInv, SafeInv
  <2>2. SafeInv'
    BY StateStep, ControlStep, SweepStep, LockStep, OwnershipStep, HolderStep, OpenStep,
       ServingStep, RegistryStep, NoIdleEscapesStep, MarksFirstStep
       DEF CountInv, SafeInv, TypeOK
  <2>3. PanicInv'
    BY <2>1, PanicStep DEF CountInv
  <2>4. OutstandingCounted'
    <3>1. CASE Alive'
      BY <2>1, <3>1, AliveBefore, CountEffectStep, CountStep DEF CountInv, TypeOK
    <3>2. CASE ~Alive'
      BY <3>2 DEF Alive, At, OutstandingCounted
    <3>3. QED BY <3>1, <3>2
  <2>5. Waited' /\ Finished'
    BY <2>1, <2>2, OutShrinksStep, NoJoinStep, WaitStep, FinishStep DEF CountInv, SafeInv
  <2>6. QED BY <2>2, <2>3, <2>4, <2>5 DEF CountInv
<1>3. QED BY <1>1, <1>2, PTL DEF Spec

(* Each WaitGroup counts exactly the outstanding conns of its shard, less  *)
(* one for every conn that was disowned after it was closed.               *)
THEOREM CountCorrect == Spec => []OutstandingCounted
BY CountInvariant, PTL DEF CountInv

(* A WaitGroup of the listener panics only after a conn was disowned that  *)
(* had been closed.                                                        *)
THEOREM PanicsAreMiscounts == Spec => []((\E g \in Procs : pc[g] = "panicked") => Twice # {})
<1>1. CountInv => ((\E g \in Procs : pc[g] = "panicked") => Twice # {})
  BY DEF CountInv, PanicInv, Alive
<1>2. QED BY <1>1, CountInvariant, PTL

(* When Drain or DrainAll has returned, no conn that Accept handed out is  *)
(* still open in the listener's care, in any shard none of whose conns was *)
(* disowned after it was closed.                                           *)
THEOREM DrainCorrect == Spec => []DrainWaits
<1>1. CountInv => DrainWaits
  BY DEF CountInv, Finished, DrainWaits
<1>2. QED BY <1>1, CountInvariant, PTL

(* Drain keeps the whole of its promise for callers that disown no closed  *)
(* conn.                                                                   *)
THEOREM DrainWithoutMiscounts == Spec => [](Twice = {} => DrainWaitsForAll)
<1>1. CountInv => (Twice = {} => DrainWaitsForAll)
  BY DEF CountInv, Finished, DrainWaitsForAll, Exact
<1>2. QED BY <1>1, CountInvariant, PTL
=============================================================================
