--------------------------- MODULE MiddlewareStack ---------------------------
(***************************************************************************)
(* web.Mux and its mStack: building the chain of closures of a middleware  *)
(* stack is expensive, so stacks are kept in a pool and used again.  A     *)
(* change of the layers leaves the pool, with all it holds, behind.        *)
(*                                                                         *)
(* Changes hold m.lock; calls take no lock: they read m.pool and m.stack,  *)
(* and the documentation forbids changes while there are calls.  Both are  *)
(* allowed here.  A newStack that races with a change may come out as      *)
(* anything, or panic; the words m.pool and cs.pool are read and written   *)
(* whole and in program order.                                             *)
(***************************************************************************)
EXTENDS Naturals, Sequences, FiniteSets

CONSTANTS Layers,      \* middleware functions
          Calls,       \* calls of ServeHTTP and ServeHTTPC
          Stacks,      \* cStack objects; unreachable ones are allocated again
          TornLists,   \* what newStack may make of a list that is being changed
          MaxChanges,  \* bound on the changes made
          MaxLayers,   \* bound on len(m.stack)
          NoCall, NoStack, Blank

ASSUME StackAssumption ==
    /\ TornLists \subseteq Seq(Layers) /\ MaxChanges \in Nat /\ MaxLayers \in Nat
    /\ NoCall \notin Calls /\ NoStack \notin Stacks /\ Blank \notin Calls

Pools == 0 .. MaxChanges
NoPool == MaxChanges + 1

VARIABLES
    stack, pool, lock,      \* mStack: layers, number of the pool, lock is held
    idle,                   \* what lies in each pool ever made
    layers, ctx, home,      \* cStack: what m is made of, C, pool
    pc, cs, p, caller,      \* calls: the cStack and the pool in hand
    racing                  \* history: calls that have overlapped a change

mVars    == <<stack, pool, lock>>
csVars   == <<layers, ctx, home>>
callVars == <<pc, cs, p, caller>>
vars == <<mVars, idle, csVars, callVars, racing>>

Init ==
    /\ stack = <<>> /\ pool = 0 /\ lock = FALSE
    /\ idle = [q \in Pools |-> {}]
    /\ layers = [s \in Stacks |-> <<>>] /\ ctx = [s \in Stacks |-> Blank]
    /\ home = [s \in Stacks |-> NoPool]
    /\ pc = [c \in Calls |-> "none"] /\ cs = [c \in Calls |-> NoStack]
    /\ p = [c \in Calls |-> 0] /\ caller = [c \in Calls |-> NoCall]
    /\ racing = {}

At(c, l) == pc[c] = l
Goto(c, l) == pc' = [pc EXCEPT ![c] = l]
Active == {c \in Calls : pc[c] # "none"}
Unreachable == Stacks \ ((UNION {idle[q] : q \in Pools}) \cup {cs[c] : c \in Calls})

-----------------------------------------------------------------------------
(* A call, from alloc to release.                                          *)

\* A request comes in, or the handler of call b calls the mux with its context.
\* alloc reads m.pool first.
Begin(c, b) ==
    /\ At(c, "none")
    /\ b = NoCall \/ (b \in Calls /\ At(b, "serve"))
    /\ p' = [p EXCEPT ![c] = pool]
    /\ pc' = [d \in Calls |-> CASE d = c -> "get" [] d = b -> "wait" [] OTHER -> pc[d]]
    /\ caller' = [caller EXCEPT ![c] = b]
    /\ racing' = IF lock THEN racing \cup {c} ELSE racing
    /\ UNCHANGED <<mVars, idle, csVars, cs>>

\* The pool yields a stack, or none, as it likes.
Get(c) ==
    /\ At(c, "get")
    /\ \/ \E s \in idle[p[c]] :
             /\ idle' = [idle EXCEPT ![p[c]] = @ \ {s}]
             /\ cs' = [cs EXCEPT ![c] = s] /\ home' = [home EXCEPT ![s] = p[c]]
             /\ Goto(c, "start")
       \/ Goto(c, "build") /\ UNCHANGED <<idle, cs, home>>
    /\ UNCHANGED <<mVars, layers, ctx, p, caller, racing>>

\* newStack closes over every layer of m.stack, innermost first.
Build(c) ==
    /\ At(c, "build")
    /\ \E s \in Unreachable, list \in {stack} \cup (IF c \in racing THEN TornLists ELSE {}) :
          /\ layers' = [layers EXCEPT ![s] = list] /\ ctx' = [ctx EXCEPT ![s] = Blank]
          /\ cs' = [cs EXCEPT ![c] = s] /\ home' = [home EXCEPT ![s] = p[c]]
    /\ Goto(c, "start")
    /\ UNCHANGED <<mVars, idle, p, caller, racing>>

\* cStack.ServeHTTP and ServeHTTPC set the context and enter the outermost layer.
Start(c) ==
    /\ At(c, "start") /\ Goto(c, "serve")
    /\ ctx' = [ctx EXCEPT ![cs[c]] =
                  IF caller[c] = NoCall THEN Blank ELSE ctx[cs[caller[c]]]]
    /\ UNCHANGED <<mVars, idle, layers, home, cs, p, caller, racing>>

\* A layer, or the router, finds c.Env nil and makes one.
Fill(c) ==
    /\ At(c, "serve") /\ ctx[cs[c]] = Blank
    /\ ctx' = [ctx EXCEPT ![cs[c]] = c]
    /\ UNCHANGED <<mVars, idle, layers, home, callVars, racing>>

\* Nobody can reach stack s any more, whatever it holds.
Garbage(s) ==
    /\ layers' = [layers EXCEPT ![s] = <<>>] /\ ctx' = [ctx EXCEPT ![s] = Blank]
    /\ home' = [home EXCEPT ![s] = NoPool]

\* The call is over and its caller, if it has one, goes on.
Leave(c) ==
    /\ pc' = [d \in Calls |-> CASE d = c -> "none" [] d = caller[c] -> "serve"
                                [] OTHER -> pc[d]]
    /\ cs' = [cs EXCEPT ![c] = NoStack] /\ caller' = [caller EXCEPT ![c] = NoCall]
    /\ p' = [p EXCEPT ![c] = 0]
    /\ racing' = racing \ {c}

\* The handler panics; somebody further out recovers.  Nothing releases the stack.
Panic(c) ==
    /\ \/ At(c, "serve") /\ Garbage(cs[c])
       \/ At(c, "build") /\ c \in racing /\ UNCHANGED csVars
    /\ Leave(c)
    /\ UNCHANGED <<mVars, idle>>

\* Mutant: the stack is put back first and cleared afterwards.
Return_PutsEarly(c) ==
    /\ At(c, "serve") /\ Goto(c, "release")
    /\ idle' = [idle EXCEPT ![home[cs[c]]] = @ \cup {cs[c]}]
    /\ UNCHANGED <<mVars, csVars, cs, p, caller, racing>>

Return(c) ==
    /\ At(c, "serve") /\ Goto(c, "release")
    /\ UNCHANGED <<mVars, idle, csVars, cs, p, caller, racing>>

\* release clears the context and asks whether the pool is still the mux's.
Release(c) ==
    /\ At(c, "release")
    /\ \/ /\ home[cs[c]] = pool
          /\ ctx' = [ctx EXCEPT ![cs[c]] = Blank]
          /\ Goto(c, "put")
          /\ UNCHANGED <<layers, home, cs, p, caller, racing>>
       \/ /\ home[cs[c]] # pool
          /\ Garbage(cs[c])
          /\ Leave(c)
    /\ UNCHANGED <<mVars, idle>>

\* Mutant: the stack goes to the pool that the mux has now.
Put_CurrentPool(c) ==
    /\ At(c, "put")
    /\ idle' = [idle EXCEPT ![pool] = @ \cup {cs[c]}]
    /\ home' = [home EXCEPT ![cs[c]] = NoPool]
    /\ Leave(c)
    /\ UNCHANGED <<mVars, layers, ctx>>

\* By the time the stack is put into the pool, the pool may be another.
Put(c) ==
    /\ At(c, "put")
    /\ idle' = [idle EXCEPT ![home[cs[c]]] = @ \cup {cs[c]}]
    /\ home' = [home EXCEPT ![cs[c]] = NoPool]
    /\ Leave(c)
    /\ UNCHANGED <<mVars, layers, ctx>>

\* The garbage collector empties pools; a chan that is full drops what is put.
Forget(q, s) ==
    /\ s \in idle[q] /\ idle' = [idle EXCEPT ![q] = @ \ {s}]
    /\ Garbage(s)
    /\ UNCHANGED <<mVars, callVars, racing>>

-----------------------------------------------------------------------------
(* Changes of the layers.  The error of an unknown layer changes nothing.  *)

\* findLayer
Found(l, i) == i \in DOMAIN stack /\ stack[i] = l /\ \A j \in 1 .. i - 1 : stack[j] # l

ChangeTo(list) ==
    /\ ~lock /\ lock' = TRUE /\ pool < MaxChanges
    /\ stack' = list
    /\ racing' = Active
    /\ UNCHANGED <<pool, idle, csVars, callVars>>

Use(l) == Len(stack) < MaxLayers /\ ChangeTo(Append(stack, l))

\* Mutant: the place is made one too far in.
Insert_After(l, before) ==
    /\ Len(stack) < MaxLayers
    /\ \E i \in DOMAIN stack :
          /\ Found(before, i)
          /\ ChangeTo([j \in 1 .. Len(stack) + 1 |->
                          IF j <= i THEN stack[j] ELSE IF j = i + 1 THEN l ELSE stack[j - 1]])

\* The new layer is appended, its place is made by copying, and it is put there.
Insert(l, before) ==
    /\ Len(stack) < MaxLayers
    /\ \E i \in DOMAIN stack :
          /\ Found(before, i)
          /\ ChangeTo([j \in 1 .. Len(stack) + 1 |->
                          IF j < i THEN stack[j] ELSE IF j = i THEN l ELSE stack[j - 1]])

Abandon(l) ==
    \E i \in DOMAIN stack :
        /\ Found(l, i)
        /\ ChangeTo([j \in 1 .. Len(stack) - 1 |-> IF j < i THEN stack[j] ELSE stack[j + 1]])

\* Mutant: the lock is not released.
Invalidate_Locked ==
    /\ lock
    /\ pool' = pool + 1
    /\ UNCHANGED <<stack, lock, idle, csVars, callVars, racing>>

Invalidate ==
    /\ lock /\ lock' = FALSE
    /\ pool' = pool + 1
    /\ UNCHANGED <<stack, idle, csVars, callVars, racing>>

-----------------------------------------------------------------------------
CallStep(c) ==
    \/ \E b \in Calls \cup {NoCall} : Begin(c, b)
    \/ Get(c) \/ Build(c) \/ Start(c) \/ Fill(c) \/ Panic(c)
    \/ Return(c) \/ Release(c) \/ Put(c)

Next ==
    \/ \E c \in Calls : CallStep(c)
    \/ \E q \in Pools, s \in Stacks : Forget(q, s)
    \/ \E l \in Layers : Use(l) \/ Abandon(l)
    \/ \E l, before \in Layers : Insert(l, before)
    \/ Invalidate

Spec == Init /\ [][Next]_vars

-----------------------------------------------------------------------------
(* Properties.                                                             *)

\* The types of the state.
TypeOK ==
    /\ stack \in Seq(Layers) /\ pool \in Pools /\ lock \in BOOLEAN
    /\ lock => pool < MaxChanges
    /\ idle \in [Pools -> SUBSET Stacks]
    /\ layers \in [Stacks -> Seq(Layers)] /\ ctx \in [Stacks -> Calls \cup {Blank}]
    /\ home \in [Stacks -> Pools \cup {NoPool}]
    /\ pc \in [Calls -> {"none", "get", "build", "start", "serve", "wait", "release", "put"}]
    /\ cs \in [Calls -> Stacks \cup {NoStack}] /\ p \in [Calls -> Pools]
    /\ caller \in [Calls -> Calls \cup {NoCall}] /\ racing \subseteq Active

Holding == {"start", "serve", "wait", "release", "put"}

(* A cStack is in one place: in the hands of one call or in one pool, also *)
(* if a call panics, its handler calls the mux again, or a release meets a *)
(* change.  Two requests that shared one would see each other's context.   *)
StacksPrivate ==
    /\ \A c \in Calls : cs[c] = NoStack <=> pc[c] \notin Holding
    /\ \A c, d \in Calls : cs[c] = cs[d] /\ cs[c] # NoStack => c = d
    /\ \A c \in Calls, q \in Pools : cs[c] \notin idle[q]
    /\ \A q, r \in Pools : q # r => idle[q] \cap idle[r] = {}

(* A stack made of other layers than those in force never gets into the    *)
(* pool that calls take theirs from, although release puts it there        *)
(* without the lock and newStack may have run before, during or after the  *)
(* change (middleware.go:98 and :110).                                     *)
PoolCurrent == ~lock => \A s \in idle[pool] : layers[s] = stack

(* What the program around the mux sees of the calls. *)
Phase ==
    [c \in Calls |-> CASE pc[c] \in {"get", "build", "start"} -> "begun"
                       [] pc[c] = "serve" -> "serving"
                       [] pc[c] = "wait" -> "waiting"
                       [] pc[c] \in {"release", "put"} -> "leaving"
                       [] OTHER -> "none"]
Served == [c \in Calls |-> IF pc[c] \in {"serve", "wait"} THEN layers[cs[c]] ELSE <<>>]
Context == [c \in Calls |-> IF pc[c] \in {"serve", "wait"} THEN ctx[cs[c]] ELSE Blank]

Contract == INSTANCE StackContract WITH
    list <- stack, changing <- lock, phase <- Phase, served <- Served, context <- Context

(* The pool cannot be noticed: but for calls that overlap a change, every  *)
(* call has a stack of its own of the layers in force (middleware.go:31-37 *)
(* calls the pool a cache) and a context that is blank or its caller's     *)
(* until it fills it.                                                      *)
ContractSpec == Contract!Spec
=============================================================================
