---------------------------- MODULE StartupProofs ----------------------------
(***************************************************************************)
(* For any environment that a truthful supervisor leaves, any flags and    *)
(* whenever einhorn dies: einhorn hears once of a worker and never of its  *)
(* child, unless the program calls Ready early only when the worker has    *)
(* its socket and handles SIGUSR2, no call of Ready returns before it has  *)
(* heard, and no socket that was passed to the worker leaks to the child.  *)
(***************************************************************************)
EXTENDS Startup, TLAPS

Initial  == {"bindInit", "systemdInit", "gracefulInit", "gojiInit"}
States == Initial \cup {"none", "main", "listening", "ready", "serving", "exited"}
Inside == {"dial", "write", "finish"}       \* of ready.Do

Sockets == {Closed} \cup UNION {{e.fds[fd] : fd \in Fds} : e \in Environments}

\* The types of the state that the proofs look at.
TypeInv ==
    /\ env \in Environments /\ master \in BOOLEAN
    /\ pc \in [Procs -> States] /\ ppid \in [Procs -> {"master", "worker", Reaper}]
    /\ fds \in [Procs -> [Fds -> Sockets]] /\ DOMAIN cloexec = Procs
    /\ einhornNumFds \in [Procs -> Nat] /\ systemdNumFds \in [Procs -> Nat]
    /\ stdSignals \in [Procs -> BOOLEAN] /\ handling \in [Procs -> BOOLEAN]
    /\ ready \in [Procs -> {"new", "running", "done"}]
    /\ thread \in [Procs -> [Threads -> {"none", "call", "returned"} \cup Inside]]
    /\ acks \in [Procs -> Nat] /\ early \subseteq Procs

\* einhorn is the parent of the worker while it lives, and never the child's.
Family ==
    /\ master <=> ppid["worker"] = "master"
    /\ ppid["worker"] \in {"master", Reaper} /\ ppid["child"] \in {"worker", Reaper}
    /\ pc["worker"] # "none" /\ (pc["child"] # "none" => pc["worker"] \notin Initial)

\* Whom einhorn's variables convince, and that graceful was convinced like bind
\* unless einhorn has died since.
Believed ==
    /\ einhornNumFds["child"] = 0
    /\ einhornNumFds["worker"] > 0 => env.mpid = "master"
    /\ einhornNumFds["worker"] > 0 /\ master =>
          \/ pc["worker"] \in {"bindInit", "systemdInit", "gracefulInit", "exited"}
          \/ stdSignals["worker"]

\* One caller is inside ready.Do at a time, and it is the first; nobody calls
\* Ready before package bind is initialized, and whoever does before the signals
\* are handled is early.
Readiness ==
    /\ \A p \in Procs, t \in Threads : thread[p][t] \in Inside => ready[p] = "running"
    /\ \A p \in Procs, t, u \in Threads :
          thread[p][t] \in Inside /\ thread[p][u] \in Inside => t = u
    /\ \A p \in Procs : ready[p] = "new" => acks[p] = 0
    /\ \A p \in Procs, t \in Threads :
          thread[p][t] \in {"dial", "write"} => acks[p] = 0 /\ einhornNumFds[p] > 0
    /\ \A p \in Procs : acks[p] > 0 =>
          acks[p] = 1 /\ einhornNumFds[p] > 0 /\ (handling[p] \/ p \in early)
    /\ \A p \in Procs, t \in Threads : thread[p][t] # "none" =>
          /\ handling[p] \/ p \in early
          /\ pc[p] \notin {"none", "bindInit", "systemdInit"}
    /\ \A p \in Procs : handling[p] => pc[p] \in {"ready", "serving", "exited"}
    /\ \A p \in Procs : ready[p] # "new" => pc[p] \notin {"none", "bindInit", "systemdInit"}
    /\ killed \subseteq early

\* Who has got past the acknowledgement has made it, unless einhorn has died.
Acknowledged ==
    /\ \A p \in Procs, t \in Threads : thread[p][t] = "returned" => ready[p] = "done"
    /\ \A p \in Procs, t \in Threads :
          /\ ready[p] = "done" \/ thread[p][t] = "finish"
          /\ einhornNumFds[p] > 0
          => acks[p] = 1 \/ ~master

\* A worker that has got past its packages' initialization closes on exec what
\* the supervisors it believes in have named.
Sealed ==
    /\ \A fd \in Fds : fds["worker"][fd] # Closed => env.fds[fd] # Closed
    /\ pc["worker"] \notin {"bindInit", "exited"} /\ einhornNumFds["worker"] > 0 =>
          env.fdCount > 0 /\ NamedByEinhorn(env) \subseteq cloexec["worker"]
    /\ pc["worker"] \in {"bindInit", "systemdInit"} => systemdNumFds["worker"] = 0
    /\ pc["worker"] \notin {"bindInit", "systemdInit", "exited"} =>
          /\ systemdNumFds["worker"] > 0 => NamedBySystemd(env) # {}
          /\ NamedBySystemd(env) \subseteq cloexec["worker"]

IInv == TypeInv /\ Family /\ Believed /\ Readiness /\ Acknowledged /\ Sealed /\ NoLeak

-----------------------------------------------------------------------------
USE StartupAssumption DEF procVars, bindVars, signalVars, readyVars, ackVars, At, Goto, Running, Exit, Procs,
    Threads, Unset

LEMMA InitInv == Init => IInv
<1> SUFFICES ASSUME Init PROVE IInv
  OBVIOUS
<1>1. TypeInv
  <2>1. env \in Environments /\ fds \in [Procs -> [Fds -> Sockets]]
    <3>1. PICK e \in Environments : env = e /\ fds = [p \in Procs |-> e.fds]
      BY DEF Init
    <3>2. e.fds \in [Fds -> {e.fds[fd] : fd \in Fds}]
      BY <3>1
    <3>3. {e.fds[fd] : fd \in Fds} \subseteq Sockets
      BY <3>1 DEF Sockets
    <3> QED BY <3>1, <3>2, <3>3
  <2>2. /\ ppid \in [Procs -> {"master", "worker", Reaper}]
        /\ pc \in [Procs -> States]
    BY DEF Init, States, Initial
  <2>3. /\ master \in BOOLEAN /\ DOMAIN cloexec = Procs /\ early \subseteq Procs
        /\ einhornNumFds \in [Procs -> Nat] /\ systemdNumFds \in [Procs -> Nat]
        /\ stdSignals \in [Procs -> BOOLEAN] /\ handling \in [Procs -> BOOLEAN]
        /\ acks \in [Procs -> Nat]
    BY DEF Init
  <2>4. /\ ready \in [Procs -> {"new", "running", "done"}]
        /\ thread \in [Procs -> [Threads -> {"none", "call", "returned"} \cup Inside]]
    BY DEF Init
  <2> QED BY <2>1, <2>2, <2>3, <2>4 DEF TypeInv
<1>2. Family /\ Believed /\ Readiness
  BY DEF Init, Family, Believed, Readiness, Initial, Inside
<1>3. Sealed /\ NoLeak /\ Acknowledged
  BY DEF Init, Sealed, NoLeak, Acknowledged
<1> QED BY <1>1, <1>2, <1>3 DEF IInv

LEMMA EinhornInitStep ==
    ASSUME IInv, NEW p \in Procs, EinhornInit(p)
    PROVE  IInv'
<1> USE DEF IInv, EinhornInit, UnderEinhorn, CloseOnExec
<1>1. TypeInv'
  BY DEF TypeInv, States, Initial, Inside
<1>2. Family'
  BY DEF Family, TypeInv, States, Initial
<1>3. Believed'
  BY DEF Believed, Family, TypeInv, Initial
<1>4. Readiness'
  <2>1. /\ \A t \in Threads : thread[p][t] = "none"
        /\ ready[p] = "new" /\ acks[p] = 0 /\ ~handling[p]
    BY DEF Readiness, TypeInv
  <2>2. \A q \in Procs : q # p => einhornNumFds'[q] = einhornNumFds[q] /\ pc'[q] = pc[q]
    BY DEF TypeInv
  <2> QED BY <2>1, <2>2 DEF Readiness, TypeInv, Inside
<1>5. Sealed'
  BY DEF Sealed, TypeInv, Family, Initial, NamedByEinhorn
<1>6. NoLeak'
  BY DEF NoLeak, TypeInv, Family, Initial
<1>7. Acknowledged'
  <2>1. ready[p] = "new" /\ \A t \in Threads : thread[p][t] = "none"
    BY DEF Readiness, TypeInv
  <2>2. \A q \in Procs : q # p => einhornNumFds'[q] = einhornNumFds[q]
    BY DEF TypeInv
  <2> QED BY <2>1, <2>2 DEF Acknowledged, TypeInv, Inside
<1> QED BY <1>1, <1>2, <1>3, <1>4, <1>5, <1>6, <1>7

LEMMA SystemdInitStep ==
    ASSUME IInv, NEW p \in Procs, SystemdInit(p)
    PROVE  IInv'
<1> USE DEF IInv, SystemdInit
<1>1. TypeInv'
  BY DEF TypeInv, States, Initial, Inside
<1>2. Family'
  BY DEF Family, TypeInv, States, Initial
<1>3. Believed'
  BY DEF Believed, Family, TypeInv, Initial
<1>4. Readiness'
  BY DEF Readiness, TypeInv, Inside
<1>5. Sealed'
  <2> DEFINE n == IF env.listenPid = p /\ env.listenFds # Unset THEN env.listenFds ELSE 0
  <2>1. n \in Nat /\ systemdNumFds' = [systemdNumFds EXCEPT ![p] = n]
    BY DEF TypeInv
  <2>2. cloexec' = [cloexec EXCEPT ![p] = @ \cup (MinFd .. MinFd + n - 1)]
    OBVIOUS
  <2>3. p = "worker" => (n > 0 => NamedBySystemd(env) # {})
    BY <2>1 DEF NamedBySystemd, MinFd
  <2>4. p = "worker" => NamedBySystemd(env) \subseteq MinFd .. MinFd + n - 1
    BY DEF NamedBySystemd
  <2>5. p # "worker" => systemdNumFds'["worker"] = systemdNumFds["worker"]
    BY <2>1 DEF TypeInv
  <2>6. cloexec["worker"] \subseteq cloexec'["worker"]
    BY <2>2 DEF TypeInv
  <2>7. p = "worker" => /\ systemdNumFds'["worker"] = n
                        /\ NamedBySystemd(env) \subseteq cloexec'["worker"]
    BY <2>1, <2>2, <2>4 DEF TypeInv
  <2>8. UNCHANGED <<env, fds, einhornNumFds>> /\ pc' = [pc EXCEPT ![p] = "gracefulInit"]
    OBVIOUS
  <2> HIDE DEF n
  <2>9. p = "worker" => Sealed'
    BY <2>3, <2>6, <2>7, <2>8 DEF Sealed, TypeInv, NamedBySystemd, NamedByEinhorn
  <2>10. p = "child" => Sealed'
    BY <2>5, <2>6, <2>8 DEF Sealed, TypeInv, NamedBySystemd, NamedByEinhorn
  <2> QED BY <2>9, <2>10
<1>6. NoLeak'
  BY DEF NoLeak, TypeInv, Family, Initial
<1>7. Acknowledged'
  BY DEF Acknowledged, Readiness, TypeInv, Inside
<1> QED BY <1>1, <1>2, <1>3, <1>4, <1>5, <1>6, <1>7

LEMMA GracefulInitStep ==
    ASSUME IInv, NEW p \in Procs, GracefulInit(p)
    PROVE  IInv'
<1> USE DEF IInv, GracefulInit
<1>1. TypeInv'
  BY DEF TypeInv, States, Initial, Inside
<1>2. Family'
  BY DEF Family, TypeInv, States, Initial
<1>3. Believed'
  BY DEF Believed, Family, TypeInv, Initial
<1>4. Readiness'
  BY DEF Readiness, TypeInv, Inside
<1>5. Sealed'
  BY DEF Sealed, TypeInv
<1>6. NoLeak'
  BY DEF NoLeak, TypeInv
<1>7. Acknowledged'
  BY DEF Acknowledged, Readiness, TypeInv, Inside
<1> QED BY <1>1, <1>2, <1>3, <1>4, <1>5, <1>6, <1>7

LEMMA GojiInitStep ==
    ASSUME IInv, NEW p \in Procs, GojiInit(p)
    PROVE  IInv'
<1> USE DEF IInv, GojiInit
<1>1. TypeInv'
  BY DEF TypeInv, States, Initial, Inside
<1>2. Family'
  BY DEF Family, TypeInv, States, Initial
<1>3. Believed'
  BY DEF Believed, Family, TypeInv, Initial
<1>4. Readiness'
  BY DEF Readiness, TypeInv, Inside
<1>5. Sealed'
  BY DEF Sealed, TypeInv
<1>6. NoLeak'
  BY DEF NoLeak, TypeInv
<1>7. Acknowledged'
  BY DEF Acknowledged, Readiness, TypeInv, Inside
<1> QED BY <1>1, <1>2, <1>3, <1>4, <1>5, <1>6, <1>7

LEMMA BindDescriptorStep ==
    ASSUME IInv, NEW p \in Procs, BindDescriptor(p)
    PROVE  IInv'
<1> USE DEF IInv, BindDescriptor
<1>1. TypeInv'
  <2>1. fds' \in [Procs -> [Fds -> Sockets]]
    <3>1. CASE UNCHANGED fds
      BY <3>1 DEF TypeInv
    <3>2. ASSUME NEW fd, fds' = [fds EXCEPT ![p][fd] = Closed] PROVE fds' \in [Procs -> [Fds -> Sockets]]
      <4>1. Closed \in Sockets
        BY DEF Sockets
      <4> QED BY <3>2, <4>1 DEF TypeInv
    <3> QED BY <3>1, <3>2
  <2>2. pc' \in [Procs -> States] /\ ppid' \in [Procs -> {"master", "worker", Reaper}]
    BY DEF TypeInv, States, Initial
  <2> QED BY <2>1, <2>2 DEF TypeInv
<1>2. Family'
  BY DEF Family, TypeInv, States, Initial
<1>3. Believed'
  BY DEF Believed, Family, TypeInv, Initial
<1>4. Readiness'
  BY DEF Readiness, TypeInv, Inside
<1>5. Sealed'
  BY DEF Sealed, TypeInv
<1>6. NoLeak'
  BY DEF NoLeak, TypeInv
<1>7. Acknowledged'
  BY DEF Acknowledged, Readiness, TypeInv, Inside
<1> QED BY <1>1, <1>2, <1>3, <1>4, <1>5, <1>6, <1>7

LEMMA BindAddressStep ==
    ASSUME IInv, NEW p \in Procs, BindAddress(p)
    PROVE  IInv'
<1> USE DEF IInv, BindAddress
<1>1. TypeInv'
  BY DEF TypeInv, States, Initial, Inside
<1>2. Family'
  BY DEF Family, TypeInv, States, Initial
<1>3. Believed'
  BY DEF Believed, Family, TypeInv, Initial
<1>4. Readiness'
  BY DEF Readiness, TypeInv, Inside
<1>5. Sealed'
  BY DEF Sealed, TypeInv
<1>6. NoLeak'
  BY DEF NoLeak, TypeInv
<1>7. Acknowledged'
  BY DEF Acknowledged, Readiness, TypeInv, Inside
<1> QED BY <1>1, <1>2, <1>3, <1>4, <1>5, <1>6, <1>7

LEMMA HandleSignalsStep ==
    ASSUME IInv, NEW p \in Procs, HandleSignals(p)
    PROVE  IInv'
<1> USE DEF IInv, HandleSignals
<1>1. TypeInv'
  BY DEF TypeInv, States, Initial, Inside
<1>2. Family'
  BY DEF Family, TypeInv, States, Initial
<1>3. Believed'
  BY DEF Believed, Family, TypeInv, Initial
<1>4. Readiness'
  BY DEF Readiness, TypeInv, Inside
<1>5. Sealed'
  BY DEF Sealed, TypeInv
<1>6. NoLeak'
  BY DEF NoLeak, TypeInv
<1>7. Acknowledged'
  BY DEF Acknowledged, Readiness, TypeInv, Inside
<1> QED BY <1>1, <1>2, <1>3, <1>4, <1>5, <1>6, <1>7

LEMMA ServeStep ==
    ASSUME IInv, NEW p \in Procs, Serve(p)
    PROVE  IInv'
<1> USE DEF IInv, Serve
<1>1. TypeInv'
  BY DEF TypeInv, States, Initial, Inside
<1>2. Family'
  BY DEF Family, TypeInv, States, Initial
<1>3. Believed'
  BY DEF Believed, Family, TypeInv, Initial
<1>4. Readiness'
  BY DEF Readiness, TypeInv, Inside
<1>5. Sealed'
  BY DEF Sealed, TypeInv
<1>6. NoLeak'
  BY DEF NoLeak, TypeInv
<1>7. Acknowledged'
  BY DEF Acknowledged, Readiness, TypeInv, Inside
<1> QED BY <1>1, <1>2, <1>3, <1>4, <1>5, <1>6, <1>7

LEMMA OtherCallStep ==
    ASSUME IInv, NEW p \in Procs, OtherCall(p)
    PROVE  IInv'
<1> USE DEF IInv, OtherCall
<1>1. TypeInv'
  BY DEF TypeInv, States, Initial, Inside
<1>2. Family'
  BY DEF Family, TypeInv, States, Initial
<1>3. Believed'
  BY DEF Believed, Family, TypeInv, Initial
<1>4. Readiness'
  BY DEF Readiness, TypeInv, Inside
<1>5. Sealed'
  BY DEF Sealed, TypeInv
<1>6. NoLeak'
  BY DEF NoLeak, TypeInv
<1>7. Acknowledged'
  BY DEF Acknowledged, Readiness, TypeInv, Inside
<1> QED BY <1>1, <1>2, <1>3, <1>4, <1>5, <1>6, <1>7

LEMMA ReadyEnterStep ==
    ASSUME IInv, NEW p \in Procs, NEW t \in Threads, ReadyEnter(p, t)
    PROVE  IInv'
<1> USE DEF IInv, ReadyEnter, Thread
<1>1. TypeInv'
  BY DEF TypeInv, States, Initial, Inside
<1>2. Family'
  BY DEF Family, TypeInv, States, Initial
<1>3. Believed'
  BY DEF Believed, Family, TypeInv, Initial
<1>4. Readiness'
  BY DEF Readiness, TypeInv, Inside
<1>5. Sealed'
  BY DEF Sealed, TypeInv
<1>6. NoLeak'
  BY DEF NoLeak, TypeInv
<1>7. Acknowledged'
  BY DEF Acknowledged, Readiness, TypeInv, Inside
<1> QED BY <1>1, <1>2, <1>3, <1>4, <1>5, <1>6, <1>7

LEMMA ReadySkipStep ==
    ASSUME IInv, NEW p \in Procs, NEW t \in Threads, ReadySkip(p, t)
    PROVE  IInv'
<1> USE DEF IInv, ReadySkip, Thread
<1>1. TypeInv'
  BY DEF TypeInv, States, Initial, Inside
<1>2. Family'
  BY DEF Family, TypeInv, States, Initial
<1>3. Believed'
  BY DEF Believed, Family, TypeInv, Initial
<1>4. Readiness'
  BY DEF Readiness, TypeInv, Inside
<1>5. Sealed'
  BY DEF Sealed, TypeInv
<1>6. NoLeak'
  BY DEF NoLeak, TypeInv
<1>7. Acknowledged'
  BY DEF Acknowledged, Readiness, TypeInv, Inside
<1> QED BY <1>1, <1>2, <1>3, <1>4, <1>5, <1>6, <1>7

LEMMA AckDialStep ==
    ASSUME IInv, NEW p \in Procs, NEW t \in Threads, AckDial(p, t)
    PROVE  IInv'
<1> USE DEF IInv, AckDial, Thread
<1>1. TypeInv'
  BY DEF TypeInv, States, Initial, Inside
<1>2. Family'
  BY DEF Family, TypeInv, States, Initial
<1>3. Believed'
  BY DEF Believed, Family, TypeInv, Initial
<1>4. Readiness'
  BY DEF Readiness, TypeInv, Inside
<1>5. Sealed'
  BY DEF Sealed, TypeInv
<1>6. NoLeak'
  BY DEF NoLeak, TypeInv
<1>7. Acknowledged'
  BY DEF Acknowledged, Readiness, TypeInv, Inside
<1> QED BY <1>1, <1>2, <1>3, <1>4, <1>5, <1>6, <1>7

LEMMA AckWriteStep ==
    ASSUME IInv, NEW p \in Procs, NEW t \in Threads, AckWrite(p, t)
    PROVE  IInv'
<1> USE DEF IInv, AckWrite, Thread
<1>1. TypeInv'
  <2>1. acks' \in [Procs -> Nat]
    BY DEF TypeInv
  <2>2. thread' \in [Procs -> [Threads -> {"none", "call", "returned"} \cup Inside]]
    <3>1. thread' \in {thread, [thread EXCEPT ![p][t] = "finish"]}
      OBVIOUS
    <3>2. "finish" \in Inside
      BY DEF Inside
    <3> QED BY <3>1, <3>2 DEF TypeInv
  <2>3. pc' \in [Procs -> States] /\ ppid' \in [Procs -> {"master", "worker", Reaper}]
    BY DEF TypeInv, States, Initial
  <2> QED BY <2>1, <2>2, <2>3 DEF TypeInv
<1>2. Family'
  BY DEF Family, TypeInv, States, Initial
<1>3. Believed'
  BY DEF Believed, Family, TypeInv, Initial
<1>4. Readiness'
  BY DEF Readiness, TypeInv, Inside
<1>5. Sealed'
  BY DEF Sealed, TypeInv
<1>6. NoLeak'
  BY DEF NoLeak, TypeInv
<1>7. Acknowledged'
  BY DEF Acknowledged, Readiness, TypeInv, Inside
<1> QED BY <1>1, <1>2, <1>3, <1>4, <1>5, <1>6, <1>7

LEMMA ReadyFinishStep ==
    ASSUME IInv, NEW p \in Procs, NEW t \in Threads, ReadyFinish(p, t)
    PROVE  IInv'
<1> USE DEF IInv, ReadyFinish, Thread
<1>1. TypeInv'
  BY DEF TypeInv, States, Initial, Inside
<1>2. Family'
  BY DEF Family, TypeInv, States, Initial
<1>3. Believed'
  BY DEF Believed, Family, TypeInv, Initial
<1>4. Readiness'
  BY DEF Readiness, TypeInv, Inside
<1>5. Sealed'
  BY DEF Sealed, TypeInv
<1>6. NoLeak'
  BY DEF NoLeak, TypeInv
<1>7. Acknowledged'
  BY DEF Acknowledged, Readiness, TypeInv, Inside
<1> QED BY <1>1, <1>2, <1>3, <1>4, <1>5, <1>6, <1>7

LEMMA ForkStep ==
    ASSUME IInv, Fork
    PROVE  IInv'
<1> USE DEF IInv, Fork
<1>1. TypeInv'
  <2>1. [fd \in Fds |-> IF fd \in cloexec["worker"] THEN Closed ELSE fds["worker"][fd]]
           \in [Fds -> Sockets]
    BY DEF TypeInv, Sockets
  <2>2. fds' \in [Procs -> [Fds -> Sockets]]
    BY <2>1 DEF TypeInv
  <2>3. pc' \in [Procs -> States]
    BY DEF TypeInv, States, Initial
  <2> QED BY <2>2, <2>3 DEF TypeInv
<1>2. Family'
  BY DEF Family, TypeInv, States, Initial
<1>3. Believed'
  BY DEF Believed, Family, TypeInv, Initial
<1>4. Readiness'
  BY DEF Readiness, TypeInv, Inside
<1>5. Sealed'
  BY DEF Sealed, TypeInv
<1>6. NoLeak'
  <2> SUFFICES ASSUME einhornNumFds["worker"] > 0 \/ systemdNumFds["worker"] > 0, NEW fd \in Fds
               PROVE  fds'["child"][fd] = Closed
    BY DEF NoLeak
  <2>1. fds'["child"][fd] = IF fd \in cloexec["worker"] THEN Closed ELSE fds["worker"][fd]
    BY DEF TypeInv
  <2>2. ASSUME fds["worker"][fd] # Closed PROVE fd \in cloexec["worker"]
    <3>1. env.fds[fd] # Closed /\ Truthful(env)
      BY <2>2 DEF Sealed, TypeInv
    <3>2. systemdNumFds["worker"] > 0 => NamedBySystemd(env) # {}
      BY DEF Sealed
    <3>3. NamedBySystemd(env) \subseteq cloexec["worker"]
      BY DEF Sealed
    <3>4. einhornNumFds["worker"] > 0 =>
             env.mpid = "master" /\ env.fdCount > 0 /\ NamedByEinhorn(env) \subseteq cloexec["worker"]
      BY DEF Sealed, Believed
    <3> QED BY <3>1, <3>2, <3>3, <3>4 DEF Truthful
  <2> QED BY <2>1, <2>2
<1>7. Acknowledged'
  BY DEF Acknowledged, Readiness, TypeInv, Inside
<1> QED BY <1>1, <1>2, <1>3, <1>4, <1>5, <1>6, <1>7

LEMMA MasterDiesStep ==
    ASSUME IInv, MasterDies
    PROVE  IInv'
<1> USE DEF IInv, MasterDies
<1>1. TypeInv'
  BY DEF TypeInv, States, Initial, Inside
<1>2. Family'
  BY DEF Family, TypeInv, States, Initial
<1>3. Believed'
  BY DEF Believed, Family, TypeInv, Initial
<1>4. Readiness'
  BY DEF Readiness, TypeInv, Inside
<1>5. Sealed'
  BY DEF Sealed, TypeInv
<1>6. NoLeak'
  BY DEF NoLeak, TypeInv
<1>7. Acknowledged'
  BY DEF Acknowledged, Readiness, TypeInv, Inside
<1> QED BY <1>1, <1>2, <1>3, <1>4, <1>5, <1>6, <1>7

LEMMA MasterSignalsStep ==
    ASSUME IInv, NEW p \in Procs, MasterSignals(p)
    PROVE  IInv'
<1> USE DEF IInv, MasterSignals
<1>1. TypeInv'
  BY DEF TypeInv, States, Initial, Inside
<1>2. Family'
  BY DEF Family, TypeInv, States, Initial
<1>3. Believed'
  BY DEF Believed, Family, TypeInv, Initial
<1>4. Readiness'
  <2>1. p \notin early => p = "worker" /\ handling[p] /\ stdSignals[p]
    BY DEF Readiness, Believed, TypeInv
  <2>2. killed' \subseteq early
    BY <2>1 DEF Readiness
  <2> QED BY <2>2 DEF Readiness, TypeInv, Inside
<1>5. Sealed'
  BY DEF Sealed, TypeInv
<1>6. NoLeak'
  BY DEF NoLeak, TypeInv
<1>7. Acknowledged'
  BY DEF Acknowledged, Readiness, TypeInv, Inside
<1> QED BY <1>1, <1>2, <1>3, <1>4, <1>5, <1>6, <1>7

LEMMA QuitStep ==
    ASSUME IInv, NEW p \in Procs, Quit(p)
    PROVE  IInv'
<1> USE DEF IInv, Quit
<1>1. TypeInv'
  BY DEF TypeInv, States, Initial, Inside
<1>2. Family'
  BY DEF Family, TypeInv, States, Initial
<1>3. Believed'
  BY DEF Believed, Family, TypeInv, Initial
<1>4. Readiness'
  BY DEF Readiness, TypeInv, Inside
<1>5. Sealed'
  BY DEF Sealed, TypeInv
<1>6. NoLeak'
  BY DEF NoLeak, TypeInv
<1>7. Acknowledged'
  BY DEF Acknowledged, Readiness, TypeInv, Inside
<1> QED BY <1>1, <1>2, <1>3, <1>4, <1>5, <1>6, <1>7

-----------------------------------------------------------------------------
(* What each process believes of its supervisor is so, how far it has      *)
(* started says what it has, and what it must not leave open is sealed.    *)
THEOREM StartupInvariant == Spec => []IInv
<1>1. IInv /\ [Next]_vars => IInv'
  <2> SUFFICES ASSUME IInv, [Next]_vars PROVE IInv'
    OBVIOUS
  <2>1. ASSUME NEW p \in Procs, Main(p) PROVE IInv'
    BY <2>1, EinhornInitStep, SystemdInitStep, GracefulInitStep, GojiInitStep, BindDescriptorStep,
       BindAddressStep, HandleSignalsStep, ServeStep DEF Main
  <2>2. ASSUME NEW p \in Procs, OtherCall(p) \/ MasterSignals(p) \/ Quit(p) PROVE IInv'
    BY <2>2, OtherCallStep, MasterSignalsStep, QuitStep
  <2>3. ASSUME NEW p \in Procs, NEW t \in Threads, ReadyStep(p, t) PROVE IInv'
    BY <2>3, ReadyEnterStep, ReadySkipStep, AckDialStep, AckWriteStep, ReadyFinishStep
       DEF ReadyStep
  <2>4. CASE Fork \/ MasterDies
    BY <2>4, ForkStep, MasterDiesStep
  <2>5. CASE UNCHANGED vars
    BY <2>5 DEF vars, IInv, TypeInv, Family, Believed, Readiness, Acknowledged, Sealed, NoLeak
  <2> QED BY <2>1, <2>2, <2>3, <2>4, <2>5 DEF Next
<1> QED BY InitInv, <1>1, PTL DEF Spec

(* einhorn is told of the worker at most once, whichever goroutines call   *)
(* Ready and whenever it dies, and never of a child, which finds einhorn's *)
(* variables in its environment but another parent.                        *)
THEOREM OneAckOnly == Spec => []OneAck
<1>1. IInv => OneAck
  BY DEF IInv, TypeInv, Believed, Readiness, Acknowledged, OneAck
<1> QED BY <1>1, StartupInvariant, PTL

(* A worker that einhorn has heard of serves or is about to, and the       *)
(* SIGUSR2 that einhorn replaces it with never kills it.                   *)
THEOREM AckComesTrue == Spec => []AckIsTrue
<1>1. IInv => AckIsTrue
  BY DEF IInv, TypeInv, Readiness, AckIsTrue
<1> QED BY <1>1, StartupInvariant, PTL

(* No socket that a supervisor passed to the worker is open in its child,  *)
(* whenever the child is started after the packages' initialization.       *)
THEOREM SocketsDoNotLeak == Spec => []NoLeak
BY StartupInvariant, PTL DEF IInv
=============================================================================
