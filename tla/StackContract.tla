---------------------------- MODULE StackContract ----------------------------
(***************************************************************************)
(* What a web.Mux promises of its middleware, before any thought of speed: *)
(* every call of the mux is served by a stack of its own that is made of   *)
(* the layers in force, and has a context of its own.  Only a call that    *)
(* overlaps a change of the layers, which mux.go:61-62 calls illegal, may  *)
(* be served by anything.                                                  *)
(***************************************************************************)
EXTENDS Naturals, Sequences

CONSTANTS Layers,   \* middleware functions
          Calls,    \* calls of ServeHTTP and ServeHTTPC
          NoCall,   \* the caller of a call made by net/http
          Blank     \* the context C{}

VARIABLES
    list,           \* the layers in force, outermost first
    changing,       \* a Use, Insert or Abandon is under way
    phase,          \* of each call
    caller,         \* the call whose handler made this one, or NoCall
    racing,         \* calls in progress that have overlapped a change
    served,         \* the layers that serve each call
    context         \* of each call: the call that filled it, or Blank

vars == <<list, changing, phase, caller, racing, served, context>>

Init ==
    /\ list = <<>> /\ changing = FALSE /\ racing = {}
    /\ phase = [c \in Calls |-> "none"]
    /\ caller = [c \in Calls |-> NoCall]
    /\ served = [c \in Calls |-> <<>>]
    /\ context = [c \in Calls |-> Blank]

Active == {c \in Calls : phase[c] # "none"}

\* b is NoCall, or a call whose handler calls the mux again and waits.
Begin(c, b) ==
    /\ phase[c] = "none"
    /\ b = NoCall \/ (b \in Calls /\ phase[b] = "serving")
    /\ phase' = [d \in Calls |-> CASE d = c -> "begun" [] d = b -> "waiting"
                                   [] OTHER -> phase[d]]
    /\ caller' = [caller EXCEPT ![c] = b]
    /\ racing' = IF changing THEN racing \cup {c} ELSE racing
    /\ UNCHANGED <<list, changing, served, context>>

\* ServeHTTP starts from C{}, ServeHTTPC from a copy of the caller's context.
Serve(c) ==
    /\ phase[c] = "begun" /\ phase' = [phase EXCEPT ![c] = "serving"]
    /\ served'[c] \in Seq(Layers) /\ (c \notin racing => served'[c] = list)
    /\ served' = [served EXCEPT ![c] = served'[c]]
    /\ context' = [context EXCEPT ![c] =
                      IF caller[c] = NoCall THEN Blank ELSE context[caller[c]]]
    /\ UNCHANGED <<list, changing, caller, racing>>

\* A layer makes the Env of a context that has none.
Fill(c) ==
    /\ phase[c] = "serving" /\ context[c] = Blank
    /\ context' = [context EXCEPT ![c] = c]
    /\ UNCHANGED <<list, changing, phase, caller, racing, served>>

Return(c) ==
    /\ phase[c] = "serving" /\ phase' = [phase EXCEPT ![c] = "leaving"]
    /\ served' = [served EXCEPT ![c] = <<>>]
    /\ context' = [context EXCEPT ![c] = Blank]
    /\ UNCHANGED <<list, changing, caller, racing>>

\* The call returns, or panics and is recovered further out; its caller goes on.
Leave(c) ==
    /\ \/ phase[c] \in {"serving", "leaving"}
       \/ phase[c] = "begun" /\ c \in racing
    /\ phase' = [d \in Calls |-> CASE d = c -> "none" [] d = caller[c] -> "serving"
                                   [] OTHER -> phase[d]]
    /\ caller' = [caller EXCEPT ![c] = NoCall]
    /\ racing' = racing \ {c}
    /\ served' = [served EXCEPT ![c] = <<>>]
    /\ context' = [context EXCEPT ![c] = Blank]
    /\ UNCHANGED <<list, changing>>

\* Of several places where layer l is in force, the outermost.
Outermost(old, l, i) == i \in DOMAIN old /\ old[i] = l /\ \A j \in 1 .. i - 1 : old[j] # l

Appended(old, new) == \E l \in Layers : new = Append(old, l)
Inserted(old, new) ==
    \E l, before \in Layers : \E i \in DOMAIN old :
        /\ Outermost(old, before, i)
        /\ new = SubSeq(old, 1, i - 1) \o <<l>> \o SubSeq(old, i, Len(old))
Abandoned(old, new) ==
    \E l \in Layers : \E i \in DOMAIN old :
        /\ Outermost(old, l, i)
        /\ new = SubSeq(old, 1, i - 1) \o SubSeq(old, i + 1, Len(old))

\* Use, Insert or Abandon, which lasts until EndChange.
Change ==
    /\ ~changing /\ changing' = TRUE /\ racing' = Active
    /\ Appended(list, list') \/ Inserted(list, list') \/ Abandoned(list, list')
    /\ UNCHANGED <<phase, caller, served, context>>

EndChange ==
    /\ changing /\ changing' = FALSE
    /\ UNCHANGED <<list, phase, caller, racing, served, context>>

Next ==
    \/ Change \/ EndChange
    \/ \E c \in Calls :
          \/ \E b \in Calls \cup {NoCall} : Begin(c, b)
          \/ Serve(c) \/ Fill(c) \/ Return(c) \/ Leave(c)

Spec == Init /\ [][Next]_vars
=============================================================================
