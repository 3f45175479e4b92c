------------------------------- MODULE Startup -------------------------------
(***************************************************************************)
(* How a Goji process finds its socket and says that it is ready: package  *)
(* bind and goji.Serve, under einhorn, under systemd or under neither.  A  *)
(* process may start a child, which has the environment of its parent but  *)
(* neither its supervisor nor, one hopes, its sockets.  The supervisor may *)
(* die at any time.                                                        *)
(*                                                                         *)
(* The processes, their environment and sockets belong to the operating    *)
(* system; "master" is einhorn.                                            *)
(***************************************************************************)
EXTENDS Integers

CONSTANTS Environments,   \* of the worker: environment variables and sockets
          Flags,          \* what -bind may be on the command line
          Reaper          \* who becomes the parent of orphans

Procs == {"worker", "child"}
Threads == {"main", "other"}
Unset == -1
Closed == "closed"
MinFd == 3
Fds == MinFd .. MinFd + 1
NoBind == [kind |-> "none", n |-> 0]

\* What a supervisor names in the environment e: the descriptors it passed.
NamedByEinhorn(e) == {e.fdNums[i] : i \in (0 .. e.fdCount - 1) \cap DOMAIN e.fdNums}
NamedBySystemd(e) ==
    IF e.listenPid = "worker" /\ e.listenFds # Unset THEN MinFd .. MinFd + e.listenFds - 1 ELSE {}

\* A supervisor names every socket that it passes; if both did, systemd knew of all.
Truthful(e) ==
    \A fd \in Fds : e.fds[fd] # Closed =>
        IF NamedBySystemd(e) # {} THEN fd \in NamedBySystemd(e)
        ELSE e.mpid = "master" /\ e.fdCount > 0 => fd \in NamedByEinhorn(e)

\* einhorn is neither the worker nor who adopts its orphans.
ASSUME StartupAssumption ==
    /\ Reaper # "master"
    /\ \A e \in Environments :
          /\ e.mpid \notin {"worker", Reaper}
          /\ e.fdCount \in Nat \cup {Unset} /\ e.listenFds \in Nat \cup {Unset}
          /\ e.fds \in [Fds -> {e.fds[fd] : fd \in Fds}] /\ Truthful(e)

VARIABLES
    env, master,                    \* environment variables; einhorn is alive
    pc, ppid, fds,                  \* processes: state, parent, descriptors
    cloexec,                        \* descriptors that exec closes
    einhornNumFds, systemdNumFds, bind,     \* package bind
    stdSignals, handling,           \* package graceful: SIGUSR2 is listed, Notify is called
    listener,                       \* the socket that is served
    ready, thread,                  \* the Once; the goroutines that call Ready
    acks, killed,                   \* acknowledgements einhorn got; who died of SIGUSR2
    early                           \* history: who called Ready before goji.Serve did

procVars == <<pc, ppid, fds, cloexec>>
bindVars == <<einhornNumFds, systemdNumFds, bind>>
signalVars == <<stdSignals, handling>>
readyVars == <<ready, thread>>
ackVars == <<acks, killed, early>>
vars == <<env, master, procVars, bindVars, signalVars, listener, readyVars, ackVars>>

Init ==
    /\ \E e \in Environments : env = e /\ fds = [p \in Procs |-> e.fds]
    /\ master = TRUE
    /\ pc = [p \in Procs |-> IF p = "worker" THEN "bindInit" ELSE "none"]
    /\ ppid = [p \in Procs |-> IF p = "worker" THEN "master" ELSE "worker"]
    /\ cloexec = [p \in Procs |-> {}]
    /\ einhornNumFds = [p \in Procs |-> 0] /\ systemdNumFds = [p \in Procs |-> 0]
    /\ bind = [p \in Procs |-> NoBind]
    /\ stdSignals = [p \in Procs |-> FALSE] /\ handling = [p \in Procs |-> FALSE]
    /\ listener = [p \in Procs |-> Closed]
    /\ ready = [p \in Procs |-> "new"]
    /\ thread = [p \in Procs |-> [t \in Threads |-> "none"]]
    /\ acks = [p \in Procs |-> 0] /\ killed = {} /\ early = {}

At(p, l) == pc[p] = l
Goto(p, l) == pc' = [pc EXCEPT ![p] = l]
Running(p) == pc[p] \notin {"none", "exited"}

\* Process p exits: its child, if it is the worker, is an orphan.
Exit(p) ==
    /\ Goto(p, "exited")
    /\ ppid' = IF p = "worker" THEN [ppid EXCEPT !["child"] = Reaper] ELSE ppid

-----------------------------------------------------------------------------
(* Package initialization: bind, graceful, goji.                           *)

\* Mutant: the environment is believed whoever the parent is.
UnderEinhorn_Env(p) == env.mpid = "master"
UnderEinhorn(p) == env.mpid = ppid[p]

\* Mutant: the last descriptor is forgotten.
CloseOnExec_AllButOne(nums, n) == {nums[i] : i \in 0 .. n - 2}
CloseOnExec(nums, n) == {nums[i] : i \in 0 .. n - 1}

\* einhornInit: FD_COUNT may be unset; an EINHORN_FD_i that is missing is fatal.
EinhornInit(p) ==
    LET n == IF UnderEinhorn(p) /\ env.fdCount # Unset THEN env.fdCount ELSE 0
        missing == \E i \in 0 .. n - 1 : i \notin DOMAIN env.fdNums
    IN
    /\ At(p, "bindInit")
    /\ einhornNumFds' = [einhornNumFds EXCEPT ![p] = n]
    /\ IF missing THEN Exit(p) /\ UNCHANGED cloexec
       ELSE /\ Goto(p, "systemdInit") /\ UNCHANGED ppid
            /\ cloexec' = [cloexec EXCEPT ![p] = @ \cup CloseOnExec(env.fdNums, n)]
    /\ UNCHANGED <<env, master, fds, systemdNumFds, bind, signalVars, listener, readyVars, ackVars>>

SystemdInit(p) ==
    LET n == IF env.listenPid = p /\ env.listenFds # Unset THEN env.listenFds ELSE 0 IN
    /\ At(p, "systemdInit") /\ Goto(p, "gracefulInit")
    /\ systemdNumFds' = [systemdNumFds EXCEPT ![p] = n]
    /\ cloexec' = [cloexec EXCEPT ![p] = @ \cup (MinFd .. MinFd + n - 1)]
    /\ UNCHANGED <<env, master, ppid, fds, einhornNumFds, bind, signalVars, listener, readyVars, ackVars>>

\* graceful asks again whether einhorn is the parent.
GracefulInit(p) ==
    /\ At(p, "gracefulInit") /\ Goto(p, "gojiInit")
    /\ stdSignals' = [stdSignals EXCEPT ![p] = env.mpid = ppid[p]]
    /\ UNCHANGED <<env, master, ppid, fds, cloexec, bindVars, handling, listener, readyVars, ackVars>>

Sniff(p) ==
    IF env.gojiBind # NoBind THEN env.gojiBind
    ELSE IF einhornNumFds[p] > 0 THEN [kind |-> "einhorn", n |-> 0]
    ELSE IF systemdNumFds[p] > 0 THEN [kind |-> "fd", n |-> MinFd]
    ELSE [kind |-> "tcp", n |-> 0]      \* $PORT or DefaultBind

\* WithFlag sets the default of the flag, flag.Parse what the command line says.
GojiInit(p) ==
    /\ At(p, "gojiInit") /\ Goto(p, "main")
    /\ \E f \in Flags \cup {NoBind} :
          bind' = [bind EXCEPT ![p] = IF f = NoBind THEN Sniff(p) ELSE f]
    /\ UNCHANGED <<env, master, ppid, fds, cloexec, einhornNumFds, systemdNumFds, signalVars,
                   listener, readyVars, ackVars>>

-----------------------------------------------------------------------------
(* goji.Serve.                                                             *)

\* The descriptor that listenTo opens; einhornBind refuses numbers too big.
Descriptor(p) ==
    LET b == bind[p] IN
    CASE b.kind = "fd" -> b.n
      [] b.kind = "einhorn" /\ b.n < einhornNumFds[p] -> env.fdNums[b.n]
      [] OTHER -> Unset

\* FileListener makes a copy, which exec closes, and the descriptor is closed.
BindDescriptor(p) ==
    LET fd == Descriptor(p) IN
    /\ At(p, "main") /\ bind[p].kind \in {"fd", "einhorn"}
    /\ IF fd \notin Fds \/ fds[p][fd] = Closed
       THEN Exit(p) /\ UNCHANGED <<fds, listener>>
       ELSE /\ listener' = [listener EXCEPT ![p] = fds[p][fd]]
            /\ fds' = [fds EXCEPT ![p][fd] = Closed]
            /\ Goto(p, "listening") /\ UNCHANGED ppid
    /\ UNCHANGED <<env, master, cloexec, bindVars, signalVars, readyVars, ackVars>>

\* net.Listen for tcp and unix succeeds or fails.
BindAddress(p) ==
    /\ At(p, "main") /\ bind[p].kind = "tcp"
    /\ \/ /\ listener' = [listener EXCEPT ![p] = "own"]
          /\ Goto(p, "listening") /\ UNCHANGED ppid
       \/ Exit(p) /\ UNCHANGED listener
    /\ UNCHANGED <<env, master, fds, cloexec, bindVars, signalVars, readyVars, ackVars>>

\* Mutant: the signals are not yet handled when Ready is called.
HandleSignals_Later(p) ==
    /\ At(p, "listening") /\ Goto(p, "ready")
    /\ thread' = [thread EXCEPT ![p]["main"] = "call"]
    /\ UNCHANGED <<env, master, ppid, fds, cloexec, bindVars, signalVars, listener, ready, ackVars>>

\* Also Compile and http.Handle.
HandleSignals(p) ==
    /\ At(p, "listening") /\ Goto(p, "ready")
    /\ handling' = [handling EXCEPT ![p] = TRUE]
    /\ thread' = [thread EXCEPT ![p]["main"] = "call"]
    /\ UNCHANGED <<env, master, ppid, fds, cloexec, bindVars, stdSignals, listener, ready, ackVars>>

\* The program calls Ready, too: at any time once package bind is initialized,
\* in main, in a goroutine or in an init function.
OtherCall(p) ==
    /\ pc[p] \in {"gracefulInit", "gojiInit", "main", "listening", "ready", "serving"}
    /\ thread[p]["other"] = "none"
    /\ thread' = [thread EXCEPT ![p]["other"] = "call"]
    /\ early' = IF handling[p] THEN early ELSE early \cup {p}
    /\ UNCHANGED <<env, master, procVars, bindVars, signalVars, listener, ready, acks, killed>>

Thread(p, t, from, to) ==
    /\ Running(p) /\ thread[p][t] = from
    /\ thread' = [thread EXCEPT ![p][t] = to]

\* The first caller of ready.Do runs einhornAck, the others wait for it.
ReadyEnter(p, t) ==
    /\ ready[p] = "new"
    /\ Thread(p, t, "call", IF einhornNumFds[p] > 0 THEN "dial" ELSE "finish")
    /\ ready' = [ready EXCEPT ![p] = "running"]
    /\ UNCHANGED <<env, master, procVars, bindVars, signalVars, listener, ackVars>>

\* Mutant: a second caller does not wait for the first.
ReadySkip_NoWait(p, t) ==
    /\ ready[p] # "new" /\ Thread(p, t, "call", "returned")
    /\ UNCHANGED <<env, master, procVars, bindVars, signalVars, listener, ready, ackVars>>

ReadySkip(p, t) ==
    /\ ready[p] = "done" /\ Thread(p, t, "call", "returned")
    /\ UNCHANGED <<env, master, procVars, bindVars, signalVars, listener, ready, ackVars>>

\* Mutant: a dial that fails is tried again.
AckDial_Again(p, t) ==
    /\ Running(p) /\ master /\ Thread(p, t, "dial", "write")
    /\ UNCHANGED <<env, master, procVars, bindVars, signalVars, listener, ready, ackVars>>

\* An einhorn that cannot be dialled is fatal.
AckDial(p, t) ==
    /\ Running(p) /\ thread[p][t] = "dial"
    /\ IF master THEN Thread(p, t, "dial", "write") /\ UNCHANGED <<pc, ppid>>
       ELSE Exit(p) /\ UNCHANGED thread
    /\ UNCHANGED <<env, master, fds, cloexec, bindVars, signalVars, listener, ready, ackVars>>

\* What is written to an einhorn that has died may or may not be an error.
AckWrite(p, t) ==
    /\ Running(p) /\ thread[p][t] = "write"
    /\ \/ Thread(p, t, "write", "finish") /\ UNCHANGED <<pc, ppid>>
          /\ acks' = IF master THEN [acks EXCEPT ![p] = @ + 1] ELSE acks
       \/ ~master /\ Exit(p) /\ UNCHANGED <<thread, acks>>
    /\ UNCHANGED <<env, master, fds, cloexec, bindVars, signalVars, listener, ready, killed, early>>

ReadyFinish(p, t) ==
    /\ Thread(p, t, "finish", "returned")
    /\ ready' = [ready EXCEPT ![p] = "done"]
    /\ UNCHANGED <<env, master, procVars, bindVars, signalVars, listener, ackVars>>

\* The hooks are registered, and graceful.Serve takes over.
Serve(p) ==
    /\ At(p, "ready") /\ thread[p]["main"] = "returned" /\ Goto(p, "serving")
    /\ UNCHANGED <<env, master, ppid, fds, cloexec, bindVars, signalVars, listener, readyVars, ackVars>>

-----------------------------------------------------------------------------
(* The world.                                                              *)

\* exec of a child, which is a Goji program, too.
Fork ==
    /\ pc["worker"] \in {"main", "listening", "ready", "serving"} /\ At("child", "none")
    /\ Goto("child", "bindInit")
    /\ fds' = [fds EXCEPT !["child"] =
                  [fd \in Fds |-> IF fd \in cloexec["worker"] THEN Closed ELSE fds["worker"][fd]]]
    /\ UNCHANGED <<env, master, ppid, cloexec, bindVars, signalVars, listener, readyVars, ackVars>>

MasterDies ==
    /\ master /\ master' = FALSE
    /\ ppid' = [p \in Procs |-> IF ppid[p] = "master" THEN Reaper ELSE ppid[p]]
    /\ UNCHANGED <<env, pc, fds, cloexec, bindVars, signalVars, listener, readyVars, ackVars>>

\* einhorn replaces a worker that has acknowledged: the worker shuts down
\* gracefully, or dies of a signal that it does not handle.
MasterSignals(p) ==
    /\ master /\ acks[p] > 0 /\ Running(p) /\ Exit(p)
    /\ killed' = IF handling[p] /\ stdSignals[p] THEN killed ELSE killed \cup {p}
    /\ UNCHANGED <<env, master, fds, cloexec, bindVars, signalVars, listener, readyVars, acks, early>>

\* The program ends for reasons of its own.
Quit(p) ==
    /\ Running(p) /\ Exit(p)
    /\ UNCHANGED <<env, master, fds, cloexec, bindVars, signalVars, listener, readyVars, ackVars>>

-----------------------------------------------------------------------------
ReadyStep(p, t) ==
    \/ ReadyEnter(p, t) \/ ReadySkip(p, t) \/ AckDial(p, t) \/ AckWrite(p, t) \/ ReadyFinish(p, t)

Main(p) ==
    \/ EinhornInit(p) \/ SystemdInit(p) \/ GracefulInit(p) \/ GojiInit(p)
    \/ BindDescriptor(p) \/ BindAddress(p) \/ HandleSignals(p) \/ Serve(p)

Next ==
    \/ \E p \in Procs : Main(p) \/ OtherCall(p) \/ MasterSignals(p) \/ Quit(p)
    \/ \E p \in Procs, t \in Threads : ReadyStep(p, t)
    \/ Fork \/ MasterDies

\* Goroutines that can run do.
Fairness ==
    /\ \A p \in Procs : WF_vars(Main(p))
    /\ \A p \in Procs, t \in Threads : WF_vars(ReadyStep(p, t))

Spec == Init /\ [][Next]_vars /\ Fairness

-----------------------------------------------------------------------------
(* Properties.                                                             *)

(* einhorn is told that a worker is ready once, whoever calls Ready, and   *)
(* never by a child that finds einhorn's variables in its environment      *)
(* (einhorn.go:28-31, bind.go:143-145); and whoever's call of Ready        *)
(* returns, an einhorn that is alive has been told by then.                *)
OneAck ==
    /\ acks["worker"] <= 1 /\ acks["child"] = 0
    /\ \A p \in Procs, t \in Threads :
          thread[p][t] = "returned" /\ einhornNumFds[p] > 0 => acks[p] = 1 \/ ~master

(* "Should be called at the last possible moment" (bind.go:148): unless    *)
(* the program calls Ready before goji.Serve does, einhorn hears from a    *)
(* worker when that has its socket and will survive SIGUSR2.               *)
AckIsTrue ==
    \A p \in Procs \ early :
        /\ p \notin killed
        /\ acks[p] > 0 /\ Running(p) => pc[p] \in {"ready", "serving"}

(* "Prevent einhorn's fds from leaking to our children" (einhorn.go:39 and *)
(* systemd.go:28): a child has none of the sockets that its parent knows   *)
(* were passed to it, although Serve closes only the one it serves.        *)
NoLeak ==
    Running("child") /\ (einhornNumFds["worker"] > 0 \/ systemdNumFds["worker"] > 0) =>
        \A fd \in Fds : fds["child"][fd] = Closed

(* A process that starts ends up serving, or exits.                        *)
Starts == \A p \in Procs : pc[p] = "bindInit" ~> pc[p] \in {"serving", "exited"}
=============================================================================
