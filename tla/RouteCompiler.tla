--------------------------- MODULE RouteCompiler ---------------------------
(***************************************************************************)
(* A list of routes compiled to bytecode: first a pseudo-trie, then its    *)
(* flat encoding.  Route numbers and jump targets count from 0 as in the   *)
(* code; the strings here have no more than their bytes.                   *)
(*                                                                         *)
(* An instruction is [op, bs, i]: op is "cursor", "route", "jump" (taken   *)
(* when bs matches), "skip" (taken when it does not) or "fail" (a jump to  *)
(* nowhere), bs the bytes to compare, i the operand or target.             *)
(***************************************************************************)
EXTENDS RouteTable

Chunk == 3      \* bytes an instruction compares
Pending == -1   \* a target that the enclosing level fills in

\* The longest string that prefixes of all of the routes have after dp bytes.
CommonPrefix(routes, dp) ==
    LongestCommonPrefix({SubSeq(r.prefix, dp + 1, Len(r.prefix)) : r \in ToSet(routes)})

\* The sequence cut into pieces that begin at the given indices.
Pieces(seq, starts) ==
    LET at == SetToSortSeq(starts, <) \o <<Len(seq) + 1>>
    IN  [k \in 1 .. Len(at) - 1 |->
            [from |-> at[k], seq |-> SubSeq(seq, at[k], at[k + 1] - 1)]]

RECURSIVE BuildTrie(_, _, _), BuildTrieSegment(_, _, _)

(* routes are dr, dr + 1, ... of the list and share a prefix of dp bytes.  *)
(* Those that have no more bytes cut the others into segments; a segment   *)
(* that begins with none of them has route -1.                             *)
BuildTrie(routes, dp, dr) ==
    LET ends == {i \in DOMAIN routes : Len(routes[i].prefix) = dp}
        segment(p) ==
            IF p.from \in ends
            THEN [route    |-> dr + p.from - 1,
                  children |-> BuildTrieSegment(Tail(p.seq), dp, dr + p.from)]
            ELSE [route    |-> -1,
                  children |-> BuildTrieSegment(p.seq, dp, dr + p.from - 1)]
        pieces == Pieces(routes, ends \cup {1})
    IN  [k \in DOMAIN pieces |-> segment(pieces[k])]

\* One trie for each run of routes that have the next byte in common.
BuildTrieSegment(routes, dp, dr) ==
    LET starts == {i \in DOMAIN routes : i = 1 \/
                      routes[i].prefix[dp + 1] # routes[i - 1].prefix[dp + 1]}
        child(p) ==
            LET cp == CommonPrefix(p.seq, dp)
            IN  [prefix |-> cp, trie |-> BuildTrie(p.seq, dp + Len(cp), dr + p.from - 1)]
        pieces == Pieces(routes, starts)
    IN  [k \in DOMAIN pieces |-> child(pieces[k])]

\* A string in pieces of at most Chunk bytes; the first may be empty.
Chunks(p) ==
    [k \in 1 .. ((Len(p) + Chunk - 1) \div Chunk) |->
        SubSeq(p, Chunk * (k - 1) + 1, IF Chunk * k < Len(p) THEN Chunk * k ELSE Len(p))]

Jumps(ins) == ins.op \notin {"route", "cursor"}
\* Mutant: a failed comparison continues one segment too far.
Retarget_Late(ins, base, next) ==
    IF ~Jumps(ins) THEN ins
    ELSE [ins EXCEPT !.i = IF @ = Pending THEN next + 1 ELSE @ + base]
\* Targets count from the beginning of their own code; Pending means next.
Retarget(ins, base, next) ==
    IF ~Jumps(ins) THEN ins
    ELSE [ins EXCEPT !.i = IF @ = Pending THEN next ELSE @ + base]
Relocate(code, base, next) == [k \in DOMAIN code |-> Retarget(code[k], base, next)]

RECURSIVE Encode(_, _)

\* trieSegment.encode: the tests that select a child, and the children's code.
EncodeSegment(ts, dp) ==
    LET me == <<[op |-> "cursor", bs |-> <<>>, i |-> dp]>> \o
              (IF ts.route = -1 THEN <<>>
               ELSE <<[op |-> "route", bs |-> <<>>, i |-> ts.route]>>)
        add(acc, t) ==
            LET cs == Chunks(t.prefix)
                tail == [k \in 1 .. Len(cs) - 1 |->
                            [op |-> "skip", bs |-> cs[k + 1], i |-> Pending]]
                sub == Encode(t.trie, dp + Len(t.prefix))
            IN  [me  |-> Append(acc.me, [op |-> "jump", bs |-> cs[1], i |-> Len(acc.sub)]),
                 sub |-> acc.sub \o tail \o Relocate(sub, Len(acc.sub) + Len(tail), Pending)]
    IN  FoldLeft(add, [me |-> me, sub |-> <<>>], ts.children)

\* trie.encode: the tests of all segments, a way out, then the children's code.
Encode(t, dp) ==
    LET segs == [k \in DOMAIN t |-> EncodeSegment(t[k], dp)]
        msl == FoldLeft(LAMBDA n, s : n + Len(s.me), 0, segs)
        tests(acc, s) ==
            [code |-> acc.code \o Relocate(s.me, msl + 1 + acc.subl, Pending),
             subl |-> acc.subl + Len(s.sub)]
        bodies(acc, s) ==
            [code |-> acc.code \o Relocate(s.sub, Len(acc.code), acc.next + Len(s.me)),
             next |-> acc.next + Len(s.me)]
        out == <<[op |-> "jump", bs |-> <<>>, i |-> Pending]>>
    IN  FoldLeft(bodies,
                 [code |-> FoldLeft(tests, [code |-> <<>>, subl |-> 0], segs).code \o out,
                  next |-> 0],
                 segs).code

\* Mutant: a target that is still open is left as it is.
Compile_NoFail(routes) ==
    IF routes = <<>> THEN <<>> ELSE Encode(BuildTrie(routes, 0, 0), 0)
\* A target that no level could fill in: no route is left to try.
Compile(routes) ==
    IF routes = <<>> THEN <<>>
    ELSE LET m == Encode(BuildTrie(routes, 0, 0), 0)
         IN  [k \in DOMAIN m |-> IF m[k].i = Pending THEN [m[k] EXCEPT !.op = "fail"] ELSE m[k]]
=============================================================================
