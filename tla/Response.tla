------------------------------ MODULE Response ------------------------------
(***************************************************************************)
(* The http.ResponseWriters of a request.  Middleware wraps the writer it  *)
(* is given: ws[1] is net/http's and ws[k] writes to ws[k - 1].  A call on *)
(* one goes down from writer to writer as far as each lets it; here it is  *)
(* what it does to all of them.  What is written is counted, not kept.     *)
(***************************************************************************)
EXTENDS Integers, Sequences

NoMethods == {"none"}   \* Env has no ValidMethods

Server(interfaces) ==
    [kind |-> "server", interfaces |-> interfaces, code |-> 0, bytes |-> 0,
     allow |-> {}, sentAllow |-> {}, flushed |-> FALSE]

\* The optional interfaces that writer k turns out to have.
Interfaces(ws, k) ==
    CASE ws[k].kind = "server" -> ws[k].interfaces
      [] ws[k].kind = "fancy"  -> {"CloseNotifier", "Flusher", "Hijacker", "ReaderFrom"}
      [] ws[k].kind = "fancy18" -> {"Flusher", "Hijacker", "ReaderFrom"}
      [] ws[k].kind = "flush"  -> {"Flusher"}
      [] OTHER                 -> {}

\* WrapWriter, since Go 1.8 and before.
FancyOrBasic(interfaces) ==
    IF {"Flusher", "Hijacker", "ReaderFrom"} \subseteq interfaces THEN "fancy18" ELSE "basic"
FancyFlushOrBasic(interfaces) ==
    IF {"CloseNotifier", "Flusher", "Hijacker", "ReaderFrom"} \subseteq interfaces THEN "fancy"
    ELSE IF "Flusher" \in interfaces THEN "flush" ELSE "basic"
WrapWriter(ws, since18, at) ==
    LET i == Interfaces(ws, Len(ws))
        kind == IF since18 THEN FancyOrBasic(i) ELSE FancyFlushOrBasic(i)
    IN Append(ws, [kind |-> kind, code |-> 0, bytes |-> 0, at |-> at])

IsProxy(w) == w.kind \in {"fancy", "fancy18", "flush", "basic"}

\* Where a middleware stands that has made a writer: the depth of its mux, its layer.
OptionsProxy(at) == [kind |-> "options", state |-> "init", at |-> at]

\* net/http freezes the headers and ignores every WriteHeader but the first.
ServerHeader(w, code) ==
    IF w.code = 0 THEN [w EXCEPT !.code = code, !.sentAllow = w.allow] ELSE w

\* Mutant: any 404 is taken for one of the router's.
Rewrites_Any(w, code, valid) == w.kind = "options" /\ w.state = "init" /\ code = 404
Rewrites(w, code, valid) ==
    w.kind = "options" /\ w.state = "init" /\ code = 404 /\ valid[w.at[1]] # NoMethods

\* Mutant: a second WriteHeader counts, too.
Heads_Again(w) == TRUE
Heads(w) == IsProxy(w) => w.code = 0

\* The writers that a WriteHeader on writer k reaches: a proxy passes on its first.
Reached(ws, k) == {j \in 1 .. k : \A i \in j .. k : Heads(ws[i])}

\* A writer hears of a status, and passes it on as it is.
Headed(w, code) ==
    CASE w.kind = "server" -> ServerHeader(w, code)
      [] IsProxy(w) -> [w EXCEPT !.code = code]
      [] w.kind = "options" -> [w EXCEPT !.state = IF @ = "init" THEN "headerWritten" ELSE @]

(* WriteHeader on writer k; valid[d] are the ValidMethods of the mux at    *)
(* depth d.  The first autoOptionsProxy that rewrites the status sends 200 *)
(* on, with an Allow header.                                               *)
WriteHeader(ws, k, code, valid) ==
    LET reached == Reached(ws, k)
        rewriters == {j \in reached : Rewrites(ws[j], code, valid)}
        first == {j \in rewriters : \A i \in rewriters : i <= j}
        sent(j) == IF \E i \in first : j < i THEN 200 ELSE code
        allow == UNION {valid[ws[i].at[1]] \cup {"OPTIONS"} : i \in first}
        told == IF first = {} THEN ws ELSE [ws EXCEPT ![1].allow = allow]
    IN [j \in DOMAIN ws |->
           IF j \in first THEN [ws[j] EXCEPT !.state = "proxying"]
           ELSE IF j \in reached THEN Headed(told[j], sent(j)) ELSE told[j]]

Swallows(w) == w.kind = "options" /\ w.state = "proxying"

\* Each of the proxies in S sends 200 if it has sent nothing.
WithHeaders(ws, S) ==
    [j \in DOMAIN ws |->
        IF \E i \in S : IsProxy(ws[i]) /\ j \in Reached(ws, i) THEN Headed(ws[j], 200) ELSE ws[j]]

\* A writer gets a piece of the body.
Fed(w) ==
    CASE w.kind = "server" -> [ServerHeader(w, 200) EXCEPT !.bytes = @ + 1]
      [] IsProxy(w) -> [w EXCEPT !.bytes = @ + 1]
      [] w.kind = "options" -> [w EXCEPT !.state = "headerWritten"]

\* Write on writer k gets as far as nobody swallows it.
Write(ws, k) ==
    LET through == {j \in 1 .. k : \A i \in j .. k : ~Swallows(ws[i])}
        headed == WithHeaders(ws, through)
    IN [j \in DOMAIN ws |-> IF j \in through THEN Fed(headed[j]) ELSE headed[j]]

\* Flush goes straight to net/http, which sends 200 if there is no header yet.
Flush(ws) ==
    LET flushed == ws[1].flushed \/ ws[1].code = 0
    IN [ws EXCEPT ![1] = [ServerHeader(@, 200) EXCEPT !.flushed = flushed]]

\* fancyWriter.ReadFrom: what net/http copies itself is not counted.
ReadFrom(ws, k) == LET headed == WithHeaders(ws, 1 .. k) IN [headed EXCEPT ![1] = Fed(@)]

\* http.Error
Error(ws, code, valid) == Write(WriteHeader(ws, Len(ws), code, valid), Len(ws))
=============================================================================
