------------------------ MODULE MiddlewareStackProofs ------------------------
(***************************************************************************)
(* For any number of calls, stacks and changes: the cStacks are private,   *)
(* the pool in use holds stacks of the layers in force only, and a mux     *)
(* with a pool implements one that builds a stack for every call.          *)
(***************************************************************************)
EXTENDS MiddlewareStack, SequenceTheorems, TLAPS

\* The call whose handler called the mux again waits for that call alone.
CallersWait ==
    \A c \in Calls :
        /\ pc[c] = "none" => caller[c] = NoCall
        /\ caller[c] # NoCall => caller[c] # c /\ pc[caller[c]] = "wait"
        /\ \A d \in Calls : caller[c] = caller[d] /\ caller[c] # NoCall => c = d

\* A call that overlapped no change has the pool of the mux; one that did and
\* is still there when the change is over has an older one.
PoolOfCall ==
    /\ \A c \in Active : c \notin racing => ~lock /\ p[c] = pool
    /\ \A c \in racing : p[c] <= pool /\ (~lock => p[c] < pool)
    /\ \A c \in Calls : pc[c] \in Holding => home[cs[c]] = p[c]

\* What the stacks in use and in the pool are made of.
Made ==
    /\ \A c \in Calls : pc[c] \in Holding /\ c \notin racing => layers[cs[c]] = stack
    /\ PoolCurrent
    /\ \A q \in Pools : q > pool => idle[q] = {}

IInv == TypeOK /\ StacksPrivate /\ CallersWait /\ PoolOfCall /\ Made

-----------------------------------------------------------------------------
USE StackAssumption DEF Pools, NoPool, At, Goto, Active, Holding, mVars, csVars, callVars

LEMMA InitInv == Init => IInv
<1> SUFFICES ASSUME Init PROVE IInv
  OBVIOUS
<1>0. <<>> \in Seq(Layers) /\ 0 \in 0 .. MaxChanges
  OBVIOUS
<1>1. TypeOK
  <2>1. stack \in Seq(Layers) /\ pool \in Pools /\ lock = FALSE /\ idle \in [Pools -> SUBSET Stacks]
    BY <1>0 DEF Init
  <2>2. layers \in [Stacks -> Seq(Layers)] /\ ctx \in [Stacks -> Calls \cup {Blank}]
    BY <1>0 DEF Init
  <2>3. home \in [Stacks -> Pools \cup {NoPool}] /\ cs \in [Calls -> Stacks \cup {NoStack}]
    BY DEF Init
  <2>4. p \in [Calls -> Pools] /\ caller \in [Calls -> Calls \cup {NoCall}] /\ racing \subseteq Active
    BY <1>0 DEF Init
  <2>5. pc \in [Calls -> {"none", "get", "build", "start", "serve", "wait", "release", "put"}]
    BY DEF Init
  <2> QED BY <2>1, <2>2, <2>3, <2>4, <2>5 DEF TypeOK
<1>2. StacksPrivate /\ CallersWait /\ PoolOfCall /\ Made
  BY DEF Init, StacksPrivate, CallersWait, PoolOfCall, Made, PoolCurrent
<1> QED BY <1>1, <1>2 DEF IInv

LEMMA ChangedLists ==
    ASSUME TypeOK
    PROVE  /\ \A l \in Layers : Append(stack, l) \in Seq(Layers)
           /\ \A l \in Layers, i \in DOMAIN stack :
                 [j \in 1 .. Len(stack) + 1 |->
                     IF j < i THEN stack[j] ELSE IF j = i THEN l ELSE stack[j - 1]] \in Seq(Layers)
           /\ \A i \in DOMAIN stack :
                 [j \in 1 .. Len(stack) - 1 |-> IF j < i THEN stack[j] ELSE stack[j + 1]]
                    \in Seq(Layers)
<1>1. stack \in Seq(Layers) /\ Len(stack) \in Nat /\ DOMAIN stack = 1 .. Len(stack)
  BY DEF TypeOK
<1>2. \A j \in 1 .. Len(stack) : stack[j] \in Layers
  BY <1>1
<1>3. ASSUME NEW l \in Layers, NEW i \in DOMAIN stack
      PROVE  [j \in 1 .. Len(stack) + 1 |->
                 IF j < i THEN stack[j] ELSE IF j = i THEN l ELSE stack[j - 1]] \in Seq(Layers)
  <2>1. \A j \in 1 .. Len(stack) + 1 :
           (IF j < i THEN stack[j] ELSE IF j = i THEN l ELSE stack[j - 1]) \in Layers
    BY <1>1, <1>2, <1>3
  <2> QED BY <1>1, <2>1, IsASeq
<1>4. ASSUME NEW i \in DOMAIN stack
      PROVE  [j \in 1 .. Len(stack) - 1 |-> IF j < i THEN stack[j] ELSE stack[j + 1]]
                \in Seq(Layers)
  <2>1. \A j \in 1 .. Len(stack) - 1 :
           (IF j < i THEN stack[j] ELSE stack[j + 1]) \in Layers
    BY <1>1, <1>2, <1>4
  <2>2. Len(stack) - 1 \in Nat
    BY <1>1, <1>4
  <2> QED BY <2>1, <2>2, IsASeq
<1> QED BY <1>1, <1>3, <1>4

\* What is left of a call that leaves, and of the others.
Left(c) ==
    /\ pc' \in [Calls -> {"none", "get", "build", "start", "serve", "wait", "release", "put"}]
    /\ cs' \in [Calls -> Stacks \cup {NoStack}] /\ p' \in [Calls -> Pools]
    /\ caller' \in [Calls -> Calls \cup {NoCall}]
    /\ pc'[c] = "none" /\ cs'[c] = NoStack /\ caller'[c] = NoCall
    /\ \A d \in Calls \ {c} :
          /\ cs'[d] = cs[d] /\ p'[d] = p[d] /\ caller'[d] = caller[d]
          /\ pc'[d] \in Holding <=> pc[d] \in Holding
          /\ pc'[d] = "none" <=> pc[d] = "none"
          /\ pc'[d] = IF d = caller[c] THEN "serve" ELSE pc[d]
          /\ d = caller[c] => pc[d] = "wait"
    /\ racing' = racing \ {c}

LEMMA LeaveFacts ==
    ASSUME IInv, NEW c \in Calls, pc[c] \notin {"none", "wait"}, Leave(c)
    PROVE  Left(c)
<1>1. caller[c] # c
  BY DEF IInv, TypeOK, CallersWait
<1>2. caller[c] \in Calls => pc[caller[c]] = "wait"
  BY DEF IInv, TypeOK, CallersWait
<1> QED BY <1>1, <1>2 DEF IInv, TypeOK, Leave, Left

\* The stack in the hands of call c is in nobody else's, and in no pool.
Held(c) ==
    /\ cs[c] \in Stacks /\ home[cs[c]] = p[c] /\ p[c] \in Pools
    /\ \A d \in Calls \ {c} : cs[d] # cs[c]
    /\ \A q \in Pools : cs[c] \notin idle[q]

LEMMA HeldFacts ==
    ASSUME IInv, NEW c \in Calls, pc[c] \in Holding
    PROVE  Held(c)
BY DEF IInv, TypeOK, StacksPrivate, PoolOfCall, Held

\* A call that leaves takes nothing from the others, whether or not it puts its
\* stack into the pool.
LEMMA LeavePrivate ==
    ASSUME TypeOK, StacksPrivate, NEW c \in Calls, Left(c),
           \/ idle' = idle
           \/ Held(c) /\ idle' = [idle EXCEPT ![home[cs[c]]] = @ \cup {cs[c]}]
    PROVE  StacksPrivate'
<1>1. \A d \in Calls : cs'[d] = NoStack <=> pc'[d] \notin Holding
  BY DEF Left, StacksPrivate
<1>2. \A d, e \in Calls : cs'[d] = cs'[e] /\ cs'[d] # NoStack => d = e
  BY DEF Left, StacksPrivate
<1>3. \A d \in Calls, q \in Pools : cs'[d] \notin idle'[q]
  <2> SUFFICES ASSUME NEW d \in Calls, NEW q \in Pools PROVE cs'[d] \notin idle'[q]
    OBVIOUS
  <2>1. CASE idle' = idle
    <3>1. CASE d = c
      BY <2>1, <3>1 DEF Left, TypeOK
    <3>2. CASE d # c
      BY <2>1, <3>2 DEF Left, StacksPrivate
    <3> QED BY <3>1, <3>2
  <2>2. CASE Held(c) /\ idle' = [idle EXCEPT ![home[cs[c]]] = @ \cup {cs[c]}]
    <3>0. idle'[q] \subseteq idle[q] \cup {cs[c]} /\ cs[c] \in Stacks
      BY <2>2 DEF TypeOK, Held
    <3>1. CASE d = c
      BY <3>0, <3>1 DEF Left, TypeOK
    <3>2. CASE d # c
      BY <2>2, <3>0, <3>2 DEF Left, Held, StacksPrivate
    <3> QED BY <3>1, <3>2
  <2> QED BY <2>1, <2>2
<1>4. \A q, r \in Pools : q # r => idle'[q] \cap idle'[r] = {}
  <2>1. CASE idle' = idle
    BY <2>1 DEF StacksPrivate
  <2>2. CASE Held(c) /\ idle' = [idle EXCEPT ![home[cs[c]]] = @ \cup {cs[c]}]
    <3> SUFFICES ASSUME NEW q \in Pools, NEW r \in Pools, q # r,
                        NEW s \in idle'[q], s \in idle'[r]
                 PROVE  FALSE
      OBVIOUS
    <3>1. s # cs[c]
      BY <2>2 DEF Held, TypeOK
    <3>2. s \in idle[q] /\ s \in idle[r]
      BY <2>2, <3>1 DEF TypeOK
    <3> QED BY <3>2 DEF StacksPrivate
  <2> QED BY <2>1, <2>2
<1> QED BY <1>1, <1>2, <1>3, <1>4 DEF StacksPrivate

LEMMA LeavePool ==
    ASSUME TypeOK, PoolOfCall, NEW c \in Calls, Left(c), pool' = pool, lock' = lock,
           \A d \in Calls \ {c} : pc[d] \in Holding => home'[cs[d]] = home[cs[d]]
    PROVE  PoolOfCall'
<1>1. \A d \in Active' : d \notin racing' => ~lock' /\ p'[d] = pool'
  BY DEF Left, PoolOfCall
<1>2. \A d \in racing' : p'[d] <= pool' /\ (~lock' => p'[d] < pool')
  <2> SUFFICES ASSUME NEW d \in racing'
               PROVE  p'[d] <= pool' /\ (~lock' => p'[d] < pool')
    OBVIOUS
  <2>1. d \in racing /\ d \in Calls \ {c} /\ p'[d] = p[d]
    BY DEF Left, TypeOK
  <2> QED BY <2>1 DEF PoolOfCall
<1>3. \A d \in Calls : pc'[d] \in Holding => home'[cs'[d]] = p'[d]
  BY DEF Left, PoolOfCall
<1> QED BY <1>1, <1>2, <1>3 DEF PoolOfCall

LEMMA ChangeInv ==
    ASSUME IInv, NEW list \in Seq(Layers), ChangeTo(list)
    PROVE  IInv'
<1>1. TypeOK'
  BY DEF IInv, TypeOK, ChangeTo
<1>2. StacksPrivate'
  BY DEF IInv, TypeOK, StacksPrivate, ChangeTo
<1>3. CallersWait'
  BY DEF IInv, TypeOK, CallersWait, ChangeTo
<1>4. PoolOfCall'
  BY DEF IInv, TypeOK, StacksPrivate, PoolOfCall, ChangeTo
<1>5. Made'
  BY DEF IInv, TypeOK, StacksPrivate, PoolOfCall, Made, PoolCurrent, ChangeTo
<1> QED BY <1>1, <1>2, <1>3, <1>4, <1>5 DEF IInv

LEMMA InvalidateInv ==
    ASSUME IInv, Invalidate
    PROVE  IInv'
<1>1. TypeOK'
  <2>1. pool \in Pools /\ pool < MaxChanges
    BY DEF IInv, TypeOK, Invalidate
  <2>2. pool' \in Pools /\ lock' = FALSE
    BY <2>1 DEF Invalidate
  <2> QED BY <2>2 DEF IInv, TypeOK, Invalidate
<1>2. StacksPrivate'
  BY DEF IInv, TypeOK, StacksPrivate, Invalidate
<1>3. CallersWait'
  BY DEF IInv, TypeOK, CallersWait, Invalidate
<1>4. PoolOfCall'
  BY DEF IInv, TypeOK, StacksPrivate, PoolOfCall, Invalidate
<1>5. Made'
  BY DEF IInv, TypeOK, StacksPrivate, PoolOfCall, Made, PoolCurrent, Invalidate
<1> QED BY <1>1, <1>2, <1>3, <1>4, <1>5 DEF IInv

LEMMA BeginInv ==
    ASSUME IInv, NEW c \in Calls, NEW b \in Calls \cup {NoCall}, Begin(c, b)
    PROVE  IInv'
<1>1. TypeOK'
  BY DEF IInv, TypeOK, Begin
<1>2. StacksPrivate'
  BY DEF IInv, TypeOK, StacksPrivate, Begin
<1>3. CallersWait'
  BY DEF IInv, TypeOK, CallersWait, Begin
<1>4. PoolOfCall'
  BY DEF IInv, TypeOK, StacksPrivate, PoolOfCall, Begin
<1>5. Made'
  BY DEF IInv, TypeOK, StacksPrivate, PoolOfCall, Made, PoolCurrent, Begin
<1> QED BY <1>1, <1>2, <1>3, <1>4, <1>5 DEF IInv

LEMMA GetInv ==
    ASSUME IInv, NEW c \in Calls, Get(c)
    PROVE  IInv'
<1>1. CASE Goto(c, "build") /\ UNCHANGED <<idle, cs, home>>
  <2>1. TypeOK'
    BY <1>1 DEF IInv, TypeOK, Get
  <2>2. StacksPrivate'
    BY <1>1 DEF IInv, TypeOK, StacksPrivate, Get
  <2>3. CallersWait'
    BY <1>1 DEF IInv, TypeOK, CallersWait, Get
  <2>4. PoolOfCall'
    BY <1>1 DEF IInv, TypeOK, StacksPrivate, PoolOfCall, Get
  <2>5. Made'
    BY <1>1 DEF IInv, TypeOK, StacksPrivate, PoolOfCall, Made, PoolCurrent, Get
  <2> QED BY <2>1, <2>2, <2>3, <2>4, <2>5 DEF IInv
<1>2. CASE \E s \in idle[p[c]] :
              /\ idle' = [idle EXCEPT ![p[c]] = @ \ {s}]
              /\ cs' = [cs EXCEPT ![c] = s] /\ home' = [home EXCEPT ![s] = p[c]]
              /\ Goto(c, "start")
  <2> PICK s \in idle[p[c]] :
          /\ idle' = [idle EXCEPT ![p[c]] = @ \ {s}]
          /\ cs' = [cs EXCEPT ![c] = s] /\ home' = [home EXCEPT ![s] = p[c]]
          /\ Goto(c, "start")
    BY <1>2
  <2>0. s \in Stacks /\ p[c] \in Pools /\ \A d \in Calls : cs[d] # s
    BY DEF IInv, TypeOK, StacksPrivate
  <2>1. TypeOK'
    BY <2>0 DEF IInv, TypeOK, Get
  <2>2. StacksPrivate'
    BY <2>0 DEF IInv, TypeOK, StacksPrivate, Get
  <2>3. CallersWait'
    BY <2>0 DEF IInv, TypeOK, CallersWait, Get
  <2>4. PoolOfCall'
    BY <2>0 DEF IInv, TypeOK, StacksPrivate, PoolOfCall, Get
  <2>5. Made'
    BY <2>0 DEF IInv, TypeOK, StacksPrivate, PoolOfCall, Made, PoolCurrent, Get
  <2> QED BY <2>1, <2>2, <2>3, <2>4, <2>5 DEF IInv
<1> QED BY <1>1, <1>2 DEF Get

LEMMA BuildInv ==
    ASSUME IInv, NEW c \in Calls, Build(c)
    PROVE  IInv'
<1> PICK s \in Unreachable, list \in {stack} \cup (IF c \in racing THEN TornLists ELSE {}) :
        /\ layers' = [layers EXCEPT ![s] = list] /\ ctx' = [ctx EXCEPT ![s] = Blank]
        /\ cs' = [cs EXCEPT ![c] = s] /\ home' = [home EXCEPT ![s] = p[c]]
  BY DEF Build
<1>0. /\ s \in Stacks /\ list \in Seq(Layers) /\ (c \notin racing => list = stack)
      /\ \A d \in Calls : cs[d] # s
      /\ \A q \in Pools : s \notin idle[q]
  <2>1. s \in Stacks /\ \A d \in Calls : cs[d] # s
    BY DEF Unreachable
  <2>2. \A q \in Pools : s \notin idle[q]
    BY DEF Unreachable
  <2>3. list \in Seq(Layers) /\ (c \notin racing => list = stack)
    BY DEF IInv, TypeOK
  <2> QED BY <2>1, <2>2, <2>3
<1>1. TypeOK'
  BY <1>0 DEF IInv, TypeOK, Build
<1>2. StacksPrivate'
  BY <1>0 DEF IInv, TypeOK, StacksPrivate, Build
<1>3. CallersWait'
  BY <1>0 DEF IInv, TypeOK, CallersWait, Build
<1>4. PoolOfCall'
  BY <1>0 DEF IInv, TypeOK, StacksPrivate, PoolOfCall, Build
<1>5. Made'
  BY <1>0 DEF IInv, TypeOK, StacksPrivate, PoolOfCall, Made, PoolCurrent, Build
<1> QED BY <1>1, <1>2, <1>3, <1>4, <1>5 DEF IInv

LEMMA StartInv ==
    ASSUME IInv, NEW c \in Calls, Start(c)
    PROVE  IInv'
<1>0. /\ cs[c] \in Stacks
      /\ caller[c] # NoCall => caller[c] \in Calls /\ cs[caller[c]] \in Stacks
  BY DEF IInv, TypeOK, StacksPrivate, CallersWait, Start
<1>1. TypeOK'
  BY <1>0 DEF IInv, TypeOK, Start
<1>2. StacksPrivate'
  BY <1>0 DEF IInv, TypeOK, StacksPrivate, Start
<1>3. CallersWait'
  BY <1>0 DEF IInv, TypeOK, CallersWait, Start
<1>4. PoolOfCall'
  BY <1>0 DEF IInv, TypeOK, StacksPrivate, PoolOfCall, Start
<1>5. Made'
  BY <1>0 DEF IInv, TypeOK, StacksPrivate, PoolOfCall, Made, PoolCurrent, Start
<1> QED BY <1>1, <1>2, <1>3, <1>4, <1>5 DEF IInv

LEMMA FillInv ==
    ASSUME IInv, NEW c \in Calls, Fill(c)
    PROVE  IInv'
<1>1. TypeOK'
  BY DEF IInv, TypeOK, Fill
<1>2. StacksPrivate'
  BY DEF IInv, TypeOK, StacksPrivate, Fill
<1>3. CallersWait'
  BY DEF IInv, TypeOK, CallersWait, Fill
<1>4. PoolOfCall'
  BY DEF IInv, TypeOK, StacksPrivate, PoolOfCall, Fill
<1>5. Made'
  BY DEF IInv, TypeOK, StacksPrivate, PoolOfCall, Made, PoolCurrent, Fill
<1> QED BY <1>1, <1>2, <1>3, <1>4, <1>5 DEF IInv

LEMMA PanicInv ==
    ASSUME IInv, NEW c \in Calls, Panic(c)
    PROVE  IInv'
<1>1. CASE At(c, "serve") /\ Garbage(cs[c])
  <2>0. pc[c] \notin {"none", "wait"} /\ Leave(c) /\ pc[c] \in Holding /\ UNCHANGED <<mVars, idle>>
    BY <1>1 DEF Panic
  <2>a. Left(c) /\ Held(c)
    BY <2>0, LeaveFacts, HeldFacts
  <2>1. TypeOK'
    BY <1>1, <2>0, <2>a DEF Left, Held, IInv, TypeOK, Garbage
  <2>2. StacksPrivate'
    BY <2>0, <2>a, LeavePrivate DEF IInv
  <2>3. CallersWait'
    BY <1>1, <2>0, <2>a DEF Left, Held, IInv, TypeOK, CallersWait, Leave, Garbage
  <2>4. PoolOfCall'
    <3>1. \A d \in Calls \ {c} : pc[d] \in Holding => home'[cs[d]] = home[cs[d]]
      BY <1>1, <2>0, <2>a DEF Held, IInv, TypeOK, Garbage
    <3> QED BY <2>0, <2>a, <3>1, LeavePool DEF IInv
  <2>5. Made'
    BY <1>1, <2>0, <2>a DEF Left, Held, IInv, TypeOK, StacksPrivate, PoolOfCall, Made, PoolCurrent, Garbage
  <2> QED BY <2>1, <2>2, <2>3, <2>4, <2>5 DEF IInv
<1>2. CASE At(c, "build") /\ c \in racing /\ UNCHANGED csVars
  <2>0. pc[c] \notin {"none", "wait"} /\ Leave(c) /\ UNCHANGED <<mVars, idle>>
    BY <1>2 DEF Panic
  <2>a. Left(c)
    BY <2>0, LeaveFacts
  <2>1. TypeOK'
    BY <1>2, <2>0, <2>a DEF Left, IInv, TypeOK, csVars
  <2>2. StacksPrivate'
    BY <2>0, <2>a, LeavePrivate DEF IInv
  <2>3. CallersWait'
    BY <1>2, <2>0, <2>a DEF Left, IInv, TypeOK, CallersWait, Leave, csVars
  <2>4. PoolOfCall'
    BY <1>2, <2>0, <2>a DEF Left, IInv, TypeOK, StacksPrivate, PoolOfCall, csVars
  <2>5. Made'
    BY <1>2, <2>0, <2>a DEF Left, IInv, TypeOK, StacksPrivate, PoolOfCall, Made, PoolCurrent, csVars
  <2> QED BY <2>1, <2>2, <2>3, <2>4, <2>5 DEF IInv
<1> QED BY <1>1, <1>2 DEF Panic

LEMMA ReturnInv ==
    ASSUME IInv, NEW c \in Calls, Return(c)
    PROVE  IInv'
<1>1. TypeOK'
  BY DEF IInv, TypeOK, Return
<1>2. StacksPrivate'
  BY DEF IInv, TypeOK, StacksPrivate, Return
<1>3. CallersWait'
  BY DEF IInv, TypeOK, CallersWait, Return
<1>4. PoolOfCall'
  BY DEF IInv, TypeOK, StacksPrivate, PoolOfCall, Return
<1>5. Made'
  BY DEF IInv, TypeOK, StacksPrivate, PoolOfCall, Made, PoolCurrent, Return
<1> QED BY <1>1, <1>2, <1>3, <1>4, <1>5 DEF IInv

LEMMA ReleaseInv ==
    ASSUME IInv, NEW c \in Calls, Release(c)
    PROVE  IInv'
<1>1. CASE /\ ctx' = [ctx EXCEPT ![cs[c]] = Blank]
           /\ Goto(c, "put")
           /\ UNCHANGED <<layers, home, cs, p, caller, racing>>
  <2>1. TypeOK'
    BY <1>1 DEF IInv, TypeOK, Release
  <2>2. StacksPrivate'
    BY <1>1 DEF IInv, TypeOK, StacksPrivate, Release
  <2>3. CallersWait'
    BY <1>1 DEF IInv, TypeOK, CallersWait, Release
  <2>4. PoolOfCall'
    BY <1>1 DEF IInv, TypeOK, StacksPrivate, PoolOfCall, Release
  <2>5. Made'
    BY <1>1 DEF IInv, TypeOK, StacksPrivate, PoolOfCall, Made, PoolCurrent, Release
  <2> QED BY <2>1, <2>2, <2>3, <2>4, <2>5 DEF IInv
<1>2. CASE Garbage(cs[c]) /\ Leave(c)
  <2>0. pc[c] \notin {"none", "wait"} /\ Leave(c) /\ pc[c] \in Holding /\ UNCHANGED <<mVars, idle>>
    BY <1>2 DEF Release
  <2>a. Left(c) /\ Held(c)
    BY <2>0, LeaveFacts, HeldFacts
  <2>1. TypeOK'
    BY <1>2, <2>0, <2>a DEF Left, Held, IInv, TypeOK, Garbage
  <2>2. StacksPrivate'
    BY <2>0, <2>a, LeavePrivate DEF IInv
  <2>3. CallersWait'
    BY <1>2, <2>0, <2>a DEF Left, Held, IInv, TypeOK, CallersWait, Leave, Garbage
  <2>4. PoolOfCall'
    <3>1. \A d \in Calls \ {c} : pc[d] \in Holding => home'[cs[d]] = home[cs[d]]
      BY <1>2, <2>0, <2>a DEF Held, IInv, TypeOK, Garbage
    <3> QED BY <2>0, <2>a, <3>1, LeavePool DEF IInv
  <2>5. Made'
    BY <1>2, <2>0, <2>a DEF Left, Held, IInv, TypeOK, StacksPrivate, PoolOfCall, Made, PoolCurrent, Garbage
  <2> QED BY <2>1, <2>2, <2>3, <2>4, <2>5 DEF IInv
<1> QED BY <1>1, <1>2 DEF Release

LEMMA PutInv ==
    ASSUME IInv, NEW c \in Calls, Put(c)
    PROVE  IInv'
<1>0. /\ pc[c] \notin {"none", "wait"} /\ Leave(c) /\ pc[c] \in Holding
      /\ UNCHANGED <<mVars, layers, ctx>>
  BY DEF Put
<1>a. Left(c) /\ Held(c)
  BY <1>0, LeaveFacts, HeldFacts
<1>1. TypeOK'
  BY <1>0, <1>a DEF Left, Held, IInv, TypeOK, Put
<1>2. StacksPrivate'
  BY <1>a, LeavePrivate DEF IInv, Put
<1>3. CallersWait'
  BY <1>0, <1>a DEF Left, Held, IInv, TypeOK, CallersWait, Leave, Put
<1>4. PoolOfCall'
  <2>1. \A d \in Calls \ {c} : pc[d] \in Holding => home'[cs[d]] = home[cs[d]]
    BY <1>0, <1>a DEF Held, IInv, TypeOK, Put
  <2> QED BY <1>0, <1>a, <2>1, LeavePool DEF IInv
<1>5. Made'
  BY <1>0, <1>a DEF Left, Held, IInv, TypeOK, StacksPrivate, PoolOfCall, Made, PoolCurrent, Put
<1> QED BY <1>1, <1>2, <1>3, <1>4, <1>5 DEF IInv

LEMMA ForgetInv ==
    ASSUME IInv, NEW q \in Pools, NEW s \in Stacks, Forget(q, s)
    PROVE  IInv'
<1>1. TypeOK'
  BY DEF IInv, TypeOK, Forget, Garbage
<1>2. StacksPrivate'
  BY DEF IInv, TypeOK, StacksPrivate, Forget, Garbage
<1>3. CallersWait'
  BY DEF IInv, TypeOK, CallersWait, Forget, Garbage
<1>4. PoolOfCall'
  BY DEF IInv, TypeOK, StacksPrivate, PoolOfCall, Forget, Garbage
<1>5. Made'
  BY DEF IInv, TypeOK, StacksPrivate, PoolOfCall, Made, PoolCurrent, Forget, Garbage
<1> QED BY <1>1, <1>2, <1>3, <1>4, <1>5 DEF IInv

LEMMA NextInv ==
    ASSUME IInv, [Next]_vars
    PROVE  IInv'
<1>1. ASSUME NEW c \in Calls, CallStep(c) PROVE IInv'
  BY <1>1, BeginInv, GetInv, BuildInv, StartInv, FillInv, PanicInv, ReturnInv, ReleaseInv, PutInv
     DEF CallStep
<1>2. ASSUME NEW q \in Pools, NEW s \in Stacks, Forget(q, s) PROVE IInv'
  BY <1>2, ForgetInv
<1>3. TypeOK
  BY DEF IInv
<1>4. ASSUME NEW l \in Layers, Use(l) PROVE IInv'
  BY <1>3, <1>4, ChangedLists, ChangeInv DEF Use
<1>5. ASSUME NEW l \in Layers, Abandon(l) PROVE IInv'
  BY <1>3, <1>5, ChangedLists, ChangeInv DEF Abandon
<1>6. ASSUME NEW l \in Layers, NEW before \in Layers, Insert(l, before) PROVE IInv'
  BY <1>3, <1>6, ChangedLists, ChangeInv DEF Insert
<1>7. CASE UNCHANGED vars
  BY <1>7 DEF vars, IInv, TypeOK, StacksPrivate, CallersWait, PoolOfCall, Made, PoolCurrent
<1> QED BY <1>1, <1>2, <1>4, <1>5, <1>6, <1>7, InvalidateInv DEF Next

\* The inductive invariant holds of every behaviour.
LEMMA StackInvariant == Spec => []IInv
<1>1. Init => IInv
  BY InitInv
<1>2. IInv /\ [Next]_vars => IInv'
  BY NextInv
<1> QED BY <1>1, <1>2, PTL DEF Spec

\* The state is always well typed.
THEOREM TypeCorrect == Spec => []TypeOK
BY StackInvariant, PTL DEF IInv

\* A cStack is in the hands of one call or in one pool, whatever calls panic,
\* call the mux again or overlap a change.
THEOREM StacksArePrivate == Spec => []StacksPrivate
BY StackInvariant, PTL DEF IInv

\* The pool in use never holds a stack of layers that are no longer in force.
THEOREM PoolIsCurrent == Spec => []PoolCurrent
<1>1. IInv => PoolCurrent
  BY DEF IInv, Made
<1> QED BY <1>1, StackInvariant, PTL

-----------------------------------------------------------------------------
(* Every step of a mux with a pool is a step of the contract, or none.     *)

\* What the contract sees of a call whose stack no one else holds.
LEMMA OthersKeep ==
    ASSUME IInv, NEW c \in Calls, Held(c), Left(c),
           \A s \in Stacks \ {cs[c]} : layers'[s] = layers[s] /\ ctx'[s] = ctx[s]
    PROVE  /\ Served' = [Served EXCEPT ![c] = <<>>]
           /\ Context' = [Context EXCEPT ![c] = Blank]
<1>1. ASSUME NEW d \in Calls \ {c}
      PROVE  /\ pc'[d] \in {"serve", "wait"} <=> pc[d] \in {"serve", "wait"}
             /\ pc[d] \in {"serve", "wait"} =>
                   cs'[d] = cs[d] /\ layers'[cs[d]] = layers[cs[d]] /\ ctx'[cs[d]] = ctx[cs[d]]
  BY <1>1 DEF IInv, TypeOK, StacksPrivate, Held, Left
<1>2. pc'[c] \notin {"serve", "wait"}
  BY DEF Left
<1>3. Served' = [d \in Calls |-> IF d = c THEN <<>> ELSE Served[d]]
  BY <1>1, <1>2 DEF Served
<1>4. Context' = [d \in Calls |-> IF d = c THEN Blank ELSE Context[d]]
  BY <1>1, <1>2 DEF Context
<1>5. Served = [d \in Calls |-> Served[d]] /\ Context = [d \in Calls |-> Context[d]]
  BY DEF Served, Context
<1> QED BY <1>3, <1>4, <1>5

LEMMA PhaseLeft ==
    ASSUME IInv, NEW c \in Calls, pc[c] \notin {"none", "wait"}, Left(c)
    PROVE  Phase' = [d \in Calls |-> CASE d = c -> "none" [] d = caller[c] -> "serving"
                                        [] OTHER -> Phase[d]]
<1>1. \A d \in Calls \ {c} : pc'[d] = IF d = caller[c] THEN "serve" ELSE pc[d]
  BY DEF Left
<1>2. pc'[c] = "none"
  BY DEF Left
<1>3. Phase' = [d \in Calls |-> IF d = c THEN "none" ELSE
                                IF d = caller[c] THEN "serving" ELSE Phase[d]]
  BY <1>1, <1>2 DEF Phase
<1>4. caller[c] # c
  BY DEF IInv, CallersWait
<1> QED BY <1>3, <1>4

LEMMA LeaveMaps ==
    ASSUME IInv, NEW c \in Calls, pc[c] \in {"serve", "release", "put"}, Leave(c),
           \A s \in Stacks \ {cs[c]} : layers'[s] = layers[s] /\ ctx'[s] = ctx[s],
           UNCHANGED <<stack, lock>>
    PROVE  Contract!Leave(c)
<1>1. Left(c) /\ Held(c)
  BY LeaveFacts, HeldFacts
<1>2. Phase[c] \in {"serving", "leaving"}
  BY DEF Phase
<1>3. caller' = [caller EXCEPT ![c] = NoCall] /\ racing' = racing \ {c}
  BY DEF Leave
<1> QED BY <1>1, <1>2, <1>3, OthersKeep, PhaseLeft DEF Contract!Leave

LEMMA InitMaps == Init => Contract!Init
BY DEF Init, Contract!Init, Phase, Served, Context

LEMMA BeginMaps ==
    ASSUME IInv, NEW c \in Calls, NEW b \in Calls \cup {NoCall}, Begin(c, b)
    PROVE  Contract!Begin(c, b)
<1>1. b # c /\ (b \in Calls => pc[b] = "serve")
  BY DEF Begin
<1>2. /\ pc'[c] = "get" /\ (b \in Calls => pc'[b] = "wait")
      /\ \A d \in Calls \ {c, b} : pc'[d] = pc[d]
  BY <1>1 DEF Begin
<1>3. Phase' = [d \in Calls |-> CASE d = c -> "begun" [] d = b -> "waiting" [] OTHER -> Phase[d]]
  BY <1>1, <1>2 DEF Phase
<1>4. UNCHANGED <<Served, Context>>
  BY <1>1, <1>2 DEF Served, Context, Begin
<1>5. Phase[c] = "none" /\ (b \in Calls => Phase[b] = "serving")
  BY <1>1 DEF Phase, Begin
<1> QED BY <1>3, <1>4, <1>5 DEF Contract!Begin, Begin

LEMMA GetMaps ==
    ASSUME IInv, NEW c \in Calls, Get(c) \/ Build(c)
    PROVE  UNCHANGED Contract!vars
<1>1. /\ pc[c] \in {"get", "build"} /\ pc'[c] \in {"build", "start"}
      /\ \A d \in Calls \ {c} : pc'[d] = pc[d] /\ cs'[d] = cs[d]
  BY DEF Get, Build, IInv, TypeOK
<1>2. Phase' = Phase
  BY <1>1 DEF Phase
<1>3. \A d \in Calls \ {c} : pc[d] \in {"serve", "wait"} =>
          layers'[cs[d]] = layers[cs[d]] /\ ctx'[cs[d]] = ctx[cs[d]]
  <2>1. CASE Get(c)
    BY <2>1 DEF Get
  <2>2. CASE Build(c)
    <3>1. PICK s \in Unreachable, list \in {stack} \cup (IF c \in racing THEN TornLists ELSE {}) :
              layers' = [layers EXCEPT ![s] = list] /\ ctx' = [ctx EXCEPT ![s] = Blank]
      BY <2>2 DEF Build
    <3>2. \A d \in Calls : cs[d] # s
      BY <3>1 DEF Unreachable
    <3> QED BY <3>1, <3>2 DEF IInv, TypeOK, StacksPrivate
  <2> QED BY <2>1, <2>2
<1>4. Served' = Served
  BY <1>1, <1>3 DEF Served
<1>5. Context' = Context
  BY <1>1, <1>3 DEF Context
<1>6. UNCHANGED <<stack, lock, caller, racing>>
  BY DEF Get, Build
<1> QED BY <1>2, <1>4, <1>5, <1>6 DEF Contract!vars

LEMMA StartMaps ==
    ASSUME IInv, NEW c \in Calls, Start(c)
    PROVE  Contract!Serve(c)
<1>0. /\ Held(c) /\ pc[c] = "start" /\ pc' = [pc EXCEPT ![c] = "serve"]
      /\ UNCHANGED <<mVars, idle, layers, home, cs, p, caller, racing>>
  BY HeldFacts DEF Start
<1>1. \A d \in Calls \ {c} : /\ pc'[d] = pc[d]
                            /\ pc[d] \in {"serve", "wait"} => ctx'[cs[d]] = ctx[cs[d]]
  BY <1>0 DEF Start, Held, IInv, TypeOK, StacksPrivate
<1>2. pc'[c] = "serve"
  BY <1>0 DEF IInv, TypeOK
<1>3. Phase[c] = "begun" /\ Phase' = [Phase EXCEPT ![c] = "serving"]
  <2>1. Phase' = [d \in Calls |-> IF d = c THEN "serving" ELSE Phase[d]]
    BY <1>0, <1>1, <1>2 DEF Phase
  <2>2. Phase = [d \in Calls |-> Phase[d]] /\ Phase[c] = "begun"
    BY <1>0 DEF Phase
  <2> QED BY <2>1, <2>2
<1>4. Served' = [Served EXCEPT ![c] = layers[cs[c]]]
  <2>1. Served' = [d \in Calls |-> IF d = c THEN layers[cs[c]] ELSE Served[d]]
    BY <1>0, <1>1, <1>2 DEF Served
  <2>2. Served = [d \in Calls |-> Served[d]]
    BY DEF Served
  <2> QED BY <2>1, <2>2
<1>5. Served'[c] = layers[cs[c]] /\ layers[cs[c]] \in Seq(Layers)
  BY <1>0, <1>2 DEF Served, Held, IInv, TypeOK
<1>6. c \notin racing => layers[cs[c]] = stack
  BY <1>0 DEF IInv, Made
<1>7. Context' = [Context EXCEPT ![c] = IF caller[c] = NoCall THEN Blank ELSE Context[caller[c]]]
  <2>1. caller[c] # NoCall => caller[c] \in Calls /\ pc[caller[c]] = "wait"
    BY DEF IInv, TypeOK, CallersWait
  <2>2. ctx'[cs[c]] = IF caller[c] = NoCall THEN Blank ELSE Context[caller[c]]
    BY <1>0, <2>1 DEF Start, Held, Context, IInv, TypeOK
  <2> QED BY <1>0, <1>1, <1>2, <2>2 DEF Context
<1> QED BY <1>0, <1>3, <1>4, <1>5, <1>6, <1>7 DEF Contract!Serve

LEMMA FillMaps ==
    ASSUME IInv, NEW c \in Calls, Fill(c)
    PROVE  Contract!Fill(c)
<1>1. Held(c) /\ pc[c] = "serve" /\ UNCHANGED callVars
  BY HeldFacts DEF Fill
<1>2. \A d \in Calls \ {c} : pc[d] \in {"serve", "wait"} => ctx'[cs[d]] = ctx[cs[d]]
  BY <1>1 DEF Fill, Held, IInv, TypeOK, StacksPrivate
<1>3. ctx'[cs[c]] = c
  BY <1>1 DEF Fill, Held, IInv, TypeOK
<1>4. Context' = [Context EXCEPT ![c] = c]
  BY <1>1, <1>2, <1>3 DEF Context
<1>5. Phase[c] = "serving" /\ Context[c] = Blank /\ UNCHANGED <<Phase, Served>>
  BY <1>1 DEF Phase, Served, Context, Fill
<1> QED BY <1>4, <1>5 DEF Contract!Fill, Fill

LEMMA ReturnMaps ==
    ASSUME IInv, NEW c \in Calls, Return(c)
    PROVE  Contract!Return(c)
<1>1. /\ pc[c] = "serve" /\ pc'[c] = "release" /\ \A d \in Calls \ {c} : pc'[d] = pc[d]
      /\ UNCHANGED <<mVars, idle, csVars, cs, p, caller, racing>>
  BY DEF Return, IInv, TypeOK
<1>2. Phase[c] = "serving" /\ Phase' = [Phase EXCEPT ![c] = "leaving"]
  BY <1>1 DEF Phase
<1>3. Served' = [Served EXCEPT ![c] = <<>>]
  BY <1>1 DEF Served
<1>4. Context' = [Context EXCEPT ![c] = Blank]
  BY <1>1 DEF Context
<1> QED BY <1>1, <1>2, <1>3, <1>4 DEF Contract!Return

LEMMA PanicMaps ==
    ASSUME IInv, NEW c \in Calls, Panic(c)
    PROVE  Contract!Leave(c)
<1>1. CASE At(c, "serve") /\ Garbage(cs[c])
  <2>1. Held(c)
    BY <1>1, HeldFacts
  <2>2. \A s \in Stacks \ {cs[c]} : layers'[s] = layers[s] /\ ctx'[s] = ctx[s]
    BY <1>1, <2>1 DEF Garbage, Held, IInv, TypeOK
  <2> QED BY <1>1, <2>2, LeaveMaps DEF Panic
<1>2. CASE At(c, "build") /\ c \in racing /\ UNCHANGED csVars
  <2>1. Left(c) /\ pc[c] = "build"
    BY <1>2, LeaveFacts DEF Panic
  <2>2. Phase[c] = "begun" /\ Phase' = [d \in Calls |->
           CASE d = c -> "none" [] d = caller[c] -> "serving" [] OTHER -> Phase[d]]
    BY <2>1, PhaseLeft DEF Phase
  <2>3. \A d \in Calls : /\ pc'[d] \in {"serve", "wait"} <=> pc[d] \in {"serve", "wait"}
                         /\ pc[d] \in {"serve", "wait"} => cs'[d] = cs[d]
    BY <2>1 DEF Left
  <2>4. Served' = Served /\ Context' = Context
    BY <1>2, <2>3 DEF Served, Context
  <2>5. Served = [Served EXCEPT ![c] = <<>>] /\ Context = [Context EXCEPT ![c] = Blank]
    BY <2>1 DEF Served, Context
  <2>6. caller' = [caller EXCEPT ![c] = NoCall] /\ racing' = racing \ {c} /\ UNCHANGED <<stack, lock>>
    BY DEF Panic, Leave
  <2> QED BY <1>2, <2>2, <2>4, <2>5, <2>6 DEF Contract!Leave
<1> QED BY <1>1, <1>2 DEF Panic

LEMMA ReleaseMaps ==
    ASSUME IInv, NEW c \in Calls, Release(c)
    PROVE  Contract!Leave(c) \/ UNCHANGED Contract!vars
<1>0. Held(c) /\ pc[c] = "release"
  BY HeldFacts DEF Release
<1>1. CASE Garbage(cs[c]) /\ Leave(c)
  <2>1. \A s \in Stacks \ {cs[c]} : layers'[s] = layers[s] /\ ctx'[s] = ctx[s]
    BY <1>0, <1>1 DEF Garbage, Held, IInv, TypeOK
  <2> QED BY <1>0, <1>1, <2>1, LeaveMaps DEF Release
<1>2. CASE /\ ctx' = [ctx EXCEPT ![cs[c]] = Blank]
           /\ Goto(c, "put")
           /\ UNCHANGED <<layers, home, cs, p, caller, racing>>
  <2>1. \A d \in Calls \ {c} : /\ pc'[d] = pc[d]
                              /\ pc[d] \in {"serve", "wait"} => ctx'[cs[d]] = ctx[cs[d]]
    BY <1>0, <1>2 DEF Held, IInv, TypeOK, StacksPrivate
  <2>2. pc'[c] = "put"
    BY <1>2 DEF IInv, TypeOK
  <2>3. UNCHANGED <<Phase, Served, Context>>
    BY <1>0, <1>2, <2>1, <2>2 DEF Phase, Served, Context
  <2> QED BY <1>2, <2>3 DEF Contract!vars, Release
<1> QED BY <1>1, <1>2 DEF Release

LEMMA PutMaps ==
    ASSUME IInv, NEW c \in Calls, Put(c)
    PROVE  Contract!Leave(c)
BY LeaveMaps DEF Put

LEMMA ForgetMaps ==
    ASSUME IInv, NEW q \in Pools, NEW s \in Stacks, Forget(q, s)
    PROVE  UNCHANGED Contract!vars
<1>1. \A d \in Calls : pc[d] \in Holding => cs[d] \in Stacks /\ cs[d] # s
  BY DEF Forget, IInv, TypeOK, StacksPrivate
<1>2. \A d \in Calls : pc[d] \in {"serve", "wait"} =>
                        layers'[cs[d]] = layers[cs[d]] /\ ctx'[cs[d]] = ctx[cs[d]]
  BY <1>1 DEF Forget, Garbage, IInv, TypeOK
<1>3. Served' = Served /\ Context' = Context /\ Phase' = Phase
  BY <1>2 DEF Served, Context, Phase, Forget
<1> QED BY <1>3 DEF Contract!vars, Forget

\* Insert and Abandon move the layers one by one; what comes out is the old list
\* with the new layer in its place, or without the old one.
LEMMA InsertedList ==
    ASSUME TypeOK, NEW l \in Layers, NEW i \in DOMAIN stack
    PROVE  [j \in 1 .. Len(stack) + 1 |->
               IF j < i THEN stack[j] ELSE IF j = i THEN l ELSE stack[j - 1]]
           = SubSeq(stack, 1, i - 1) \o <<l>> \o SubSeq(stack, i, Len(stack))
<1> DEFINE left == SubSeq(stack, 1, i - 1)
           right == SubSeq(stack, i, Len(stack))
           mid == left \o <<l>>
           new == [j \in 1 .. Len(stack) + 1 |->
                      IF j < i THEN stack[j] ELSE IF j = i THEN l ELSE stack[j - 1]]
<1>1. /\ stack \in Seq(Layers) /\ Len(stack) \in Nat /\ i \in 1 .. Len(stack) /\ i \in Nat
      /\ \A j \in 1 .. Len(stack) : stack[j] \in Layers
  BY DEF TypeOK
<1>2. left \in Seq(Layers) /\ Len(left) = i - 1 /\ \A j \in 1 .. i - 1 : left[j] = stack[j]
  <2>1. \A j \in 1 .. i - 1 : stack[j] \in Layers
    BY <1>1
  <2> QED BY <1>1, <2>1, SubSeqProperties
<1>3. /\ right \in Seq(Layers) /\ Len(right) = Len(stack) - i + 1
      /\ \A j \in 1 .. Len(stack) - i + 1 : right[j] = stack[i + j - 1]
  <2>1. \A j \in i .. Len(stack) : stack[j] \in Layers
    BY <1>1
  <2> QED BY <1>1, <2>1, SubSeqProperties
<1>4. <<l>> \in Seq(Layers) /\ Len(<<l>>) = 1 /\ <<l>>[1] = l
  OBVIOUS
<1> HIDE DEF left, right
<1>5. /\ mid \in Seq(Layers) /\ Len(mid) = i
      /\ \A j \in 1 .. i : mid[j] = IF j < i THEN stack[j] ELSE l
  <2>1. /\ mid \in Seq(Layers) /\ Len(mid) = i
        /\ \A j \in 1 .. i : mid[j] = IF j <= i - 1 THEN left[j] ELSE <<l>>[j - (i - 1)]
    BY <1>1, <1>2, <1>4, ConcatProperties
  <2> HIDE DEF mid
  <2> QED BY <1>1, <1>2, <1>4, <2>1
<1> HIDE DEF mid
<1>6. /\ mid \o right \in Seq(Layers) /\ Len(mid \o right) = Len(stack) + 1
      /\ \A j \in 1 .. Len(stack) + 1 :
            (mid \o right)[j] = IF j <= i THEN mid[j] ELSE right[j - i]
  <2>1. Len(mid) + Len(right) = Len(stack) + 1
    BY <1>1, <1>3, <1>5
  <2>2. /\ mid \o right \in Seq(Layers) /\ Len(mid \o right) = Len(mid) + Len(right)
        /\ \A j \in 1 .. Len(mid) + Len(right) :
              (mid \o right)[j] = IF j <= Len(mid) THEN mid[j] ELSE right[j - Len(mid)]
    BY <1>3, <1>5, ConcatProperties
  <2> QED BY <1>5, <2>1, <2>2
<1>7. new \in Seq(Layers) /\ Len(new) = Len(stack) + 1
  BY <1>1, ChangedLists
<1>n. \A j \in 1 .. Len(stack) + 1 :
         new[j] = IF j < i THEN stack[j] ELSE IF j = i THEN l ELSE stack[j - 1]
  OBVIOUS
<1> HIDE DEF new
<1>8. ASSUME NEW j \in 1 .. Len(stack) + 1 PROVE new[j] = (mid \o right)[j]
  <2>1. CASE j <= i
    <3>1. (mid \o right)[j] = IF j < i THEN stack[j] ELSE l
      BY <1>1, <1>5, <1>6, <2>1
    <3> QED BY <1>1, <1>n, <2>1, <3>1
  <2>2. CASE i < j
    <3>1. PICK k \in 1 .. Len(stack) - i + 1 : k = j - i
      BY <1>1, <2>2
    <3>2. (mid \o right)[j] = right[k]
      BY <1>1, <1>6, <2>2, <3>1
    <3>3. i + k - 1 = j - 1
      BY <1>1, <3>1
    <3>4. right[k] = stack[i + k - 1]
      BY <1>3
    <3>5. new[j] = stack[j - 1]
      <4>1. ~(j < i) /\ j # i
        BY <1>1, <2>2
      <4> QED BY <1>n, <4>1
    <3>6. right[k] = stack[j - 1]
      BY <3>3, <3>4
    <3> QED BY <3>2, <3>5, <3>6
  <2>3. j <= i \/ i < j
    BY <1>1
  <2> QED BY <2>1, <2>2, <2>3
<1>9. new = mid \o right
  BY <1>6, <1>7, <1>8, SeqEqual
<1> QED BY <1>9 DEF mid, left, right, new

LEMMA AbandonedList ==
    ASSUME TypeOK, NEW i \in DOMAIN stack
    PROVE  [j \in 1 .. Len(stack) - 1 |-> IF j < i THEN stack[j] ELSE stack[j + 1]]
           = SubSeq(stack, 1, i - 1) \o SubSeq(stack, i + 1, Len(stack))
<1> DEFINE left == SubSeq(stack, 1, i - 1)
           right == SubSeq(stack, i + 1, Len(stack))
           new == [j \in 1 .. Len(stack) - 1 |-> IF j < i THEN stack[j] ELSE stack[j + 1]]
<1>1. /\ stack \in Seq(Layers) /\ Len(stack) \in Nat /\ i \in 1 .. Len(stack) /\ i \in Nat
      /\ \A j \in 1 .. Len(stack) : stack[j] \in Layers
  BY DEF TypeOK
<1>2. left \in Seq(Layers) /\ Len(left) = i - 1 /\ \A j \in 1 .. i - 1 : left[j] = stack[j]
  <2>1. \A j \in 1 .. i - 1 : stack[j] \in Layers
    BY <1>1
  <2> QED BY <1>1, <2>1, SubSeqProperties
<1>3. /\ right \in Seq(Layers) /\ Len(right) = Len(stack) - i
      /\ \A j \in 1 .. Len(stack) - i : right[j] = stack[i + j]
  <2>1. \A j \in i + 1 .. Len(stack) : stack[j] \in Layers
    BY <1>1
  <2>2. /\ right \in Seq(Layers)
        /\ Len(right) = IF i + 1 <= Len(stack) THEN Len(stack) - (i + 1) + 1 ELSE 0
        /\ \A j \in 1 .. Len(stack) - (i + 1) + 1 : right[j] = stack[(i + 1) + j - 1]
    BY <1>1, <2>1, SubSeqProperties
  <2> HIDE DEF right
  <2> QED BY <1>1, <2>2
<1> HIDE DEF left, right
<1>4. /\ left \o right \in Seq(Layers) /\ Len(left \o right) = Len(stack) - 1
      /\ \A j \in 1 .. Len(stack) - 1 : (left \o right)[j] =
                    IF j <= i - 1 THEN left[j] ELSE right[j - (i - 1)]
  BY <1>1, <1>2, <1>3, ConcatProperties
<1>5. new \in Seq(Layers) /\ Len(new) = Len(stack) - 1
  BY <1>1, ChangedLists
<1>n. \A j \in 1 .. Len(stack) - 1 : new[j] = IF j < i THEN stack[j] ELSE stack[j + 1]
  OBVIOUS
<1> HIDE DEF new
<1>6. ASSUME NEW j \in 1 .. Len(stack) - 1 PROVE new[j] = (left \o right)[j]
  <2>1. CASE j <= i - 1
    BY <1>1, <1>2, <1>4, <1>n, <2>1
  <2>2. CASE i - 1 < j
    <3>1. PICK k \in 1 .. Len(stack) - i : k = j - (i - 1)
      BY <1>1, <2>2
    <3>2. (left \o right)[j] = right[k]
      BY <1>1, <1>4, <2>2, <3>1
    <3>3. right[k] = stack[i + k] /\ i + k = j + 1
      BY <1>1, <1>3, <3>1
    <3>4. new[j] = stack[j + 1]
      BY <1>1, <1>n, <2>2
    <3>5. right[k] = stack[j + 1]
      BY <3>3
    <3> QED BY <3>2, <3>4, <3>5
  <2>3. j <= i - 1 \/ i - 1 < j
    BY <1>1
  <2> QED BY <2>1, <2>2, <2>3
<1>7. new = left \o right
  BY <1>4, <1>5, <1>6, SeqEqual
<1> QED BY <1>7 DEF left, right, new

LEMMA ChangeMaps ==
    ASSUME IInv, NEW list, ChangeTo(list),
           Contract!Appended(stack, list) \/ Contract!Inserted(stack, list)
              \/ Contract!Abandoned(stack, list)
    PROVE  Contract!Change
<1>1. UNCHANGED <<Phase, Served, Context>>
  BY DEF Phase, Served, Context, ChangeTo
<1>2. Active = Contract!Active
  BY DEF Contract!Active, Phase, IInv, TypeOK
<1> QED BY <1>1, <1>2 DEF Contract!Change, ChangeTo

LEMMA UseMaps ==
    ASSUME IInv, NEW l \in Layers, Use(l)
    PROVE  Contract!Change
BY ChangeMaps DEF Use, Contract!Appended

LEMMA InsertMaps ==
    ASSUME IInv, NEW l \in Layers, NEW before \in Layers, Insert(l, before)
    PROVE  Contract!Change
<1> PICK i \in DOMAIN stack :
        /\ Found(before, i)
        /\ ChangeTo([j \in 1 .. Len(stack) + 1 |->
                        IF j < i THEN stack[j] ELSE IF j = i THEN l ELSE stack[j - 1]])
  BY DEF Insert
<1> DEFINE new == SubSeq(stack, 1, i - 1) \o <<l>> \o SubSeq(stack, i, Len(stack))
<1>1. ChangeTo(new)
  BY InsertedList DEF IInv
<1>2. Contract!Outermost(stack, before, i)
  BY DEF Found, Contract!Outermost
<1>3. Contract!Inserted(stack, new)
  BY <1>2 DEF Contract!Inserted
<1> HIDE DEF new
<1> QED BY <1>1, <1>3, ChangeMaps

LEMMA AbandonMaps ==
    ASSUME IInv, NEW l \in Layers, Abandon(l)
    PROVE  Contract!Change
<1> PICK i \in DOMAIN stack :
        /\ Found(l, i)
        /\ ChangeTo([j \in 1 .. Len(stack) - 1 |-> IF j < i THEN stack[j] ELSE stack[j + 1]])
  BY DEF Abandon
<1> DEFINE new == SubSeq(stack, 1, i - 1) \o SubSeq(stack, i + 1, Len(stack))
<1>1. ChangeTo(new)
  BY AbandonedList DEF IInv
<1>2. Contract!Outermost(stack, l, i)
  BY DEF Found, Contract!Outermost
<1>3. Contract!Abandoned(stack, new)
  BY <1>2 DEF Contract!Abandoned
<1> HIDE DEF new
<1> QED BY <1>1, <1>3, ChangeMaps

LEMMA InvalidateMaps ==
    ASSUME IInv, Invalidate
    PROVE  Contract!EndChange
BY DEF Invalidate, Contract!EndChange, Phase, Served, Context

LEMMA NextMaps ==
    ASSUME IInv, [Next]_vars
    PROVE  [Contract!Next]_(Contract!vars)
<1>1. ASSUME NEW c \in Calls, CallStep(c) PROVE Contract!Next \/ UNCHANGED Contract!vars
  BY <1>1, BeginMaps, GetMaps, StartMaps, FillMaps, PanicMaps, ReturnMaps, ReleaseMaps, PutMaps
     DEF CallStep, Contract!Next
<1>2. ASSUME NEW q \in Pools, NEW s \in Stacks, Forget(q, s) PROVE UNCHANGED Contract!vars
  BY <1>2, ForgetMaps
<1>3. ASSUME NEW l \in Layers, Use(l) \/ Abandon(l) PROVE Contract!Next
  BY <1>3, UseMaps, AbandonMaps DEF Contract!Next
<1>4. ASSUME NEW l \in Layers, NEW before \in Layers, Insert(l, before) PROVE Contract!Next
  BY <1>4, InsertMaps DEF Contract!Next
<1>5. CASE UNCHANGED vars
  BY <1>5 DEF vars, Contract!vars, Phase, Served, Context
<1>6. CASE Invalidate
  BY <1>6, InvalidateMaps DEF Contract!Next
<1> QED BY <1>1, <1>2, <1>3, <1>4, <1>5, <1>6 DEF Next

\* A mux that pools its stacks cannot be told from one that builds a stack for
\* every call: the pool is the cache that middleware.go:31-37 says it is.
THEOREM PoolIsACache == Spec => ContractSpec
<1>1. Init => Contract!Init
  BY InitMaps
<1>2. IInv /\ [Next]_vars => [Contract!Next]_(Contract!vars)
  BY NextMaps
<1> QED BY <1>1, <1>2, StackInvariant, PTL DEF Spec, ContractSpec, Contract!Spec

=============================================================================
