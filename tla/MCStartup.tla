----------------------------- MODULE MCStartup -----------------------------
(* Instances of Startup for TLC. *)
EXTENDS Startup

Sockets(n) == [fd \in Fds |-> IF fd < MinFd + n THEN <<"s3", "s4">>[fd - 2] ELSE Closed]
Environment(mpid, fdCount, found, listenPid, listenFds, gojiBind) ==
    [mpid |-> mpid, fdCount |-> fdCount, fdNums |-> [i \in 0 .. found - 1 |-> MinFd + i],
     listenPid |-> listenPid, listenFds |-> listenFds, gojiBind |-> gojiBind,
     fds |-> Sockets(IF found > listenFds THEN found ELSE listenFds)]

Einhorn1 == [kind |-> "einhorn", n |-> 1]
MCEnvironments ==
    \* einhorn, also with a variable or its count missing, systemd, neither, both.
    {e \in {Environment("master", n, v, "none", Unset, NoBind) :
                n \in {Unset, 1, 2}, v \in {1, 2}} : Truthful(e)} \cup
    {Environment("master", 2, 2, "none", Unset, Einhorn1)} \cup
    {Environment("none", Unset, 0, "worker", n, NoBind) : n \in {Unset, 1, 2}} \cup
    {Environment("none", Unset, 0, "none", Unset, NoBind),
     Environment("none", Unset, 0, "stale", 2, NoBind),
     Environment("master", 1, 1, "worker", 2, NoBind)}
MCFlags == {[kind |-> "fd", n |-> 4], [kind |-> "tcp", n |-> 0]}
=============================================================================
